---- MODULE Spec2Model ----
(***************************************************************************)
(* BookEqualizer audio back end: TTS generation routes (chapter and book   *)
(* batch), per-requester cost ledger, audio cache and range streaming.     *)
(*                                                                         *)
(* Money is counted in micro-dollars (1 USD = 1000000), so that the        *)
(* per-character prices 0.000016 and 0.000004 are the integers 16 and 4.   *)
(***************************************************************************)
EXTENDS Integers, Sequences, FiniteSets, TLC

VARIABLES
  hour,          \* Math.floor(Date.now() / 3600000)
  costTracker,   \* NodeCache costTracker: cost key -> accumulated cost
  audioFiles,    \* prisma.audioFile table (set of records)
  disk,          \* files under config.audioPath: path -> bytes
  book,          \* the prisma.book row of the one book
  reqs,          \* generate-chapter-audio requests in flight or answered
  job,           \* the generate-book-audio request
  jobsRun,       \* number of batch jobs started so far (upload job included)
  audioFileCache, \* NodeCache audioFileCache: audio file id -> AudioCacheEntry
  fillerKeys,    \* resident audioFileCache keys of audio files not followed here
  chapterAudio,  \* chapter.audioFileId: chapter number -> audio file id or <<>>
  gets,          \* getCachedAudioFile calls in flight (stream or warmup)
  preload,       \* the preloadBookAudio call
  resp,          \* the last response of GET /stream/:audioFileId
  minute,        \* Math.floor(Date.now() / 60000)
  bandwidthTracker, \* NodeCache bandwidthTracker: bandwidth key -> bytes
  streams,       \* stream requests between the middlewares and res.end
  emitted,       \* bytes written to the requester, per bandwidth key
  arrivals,      \* number of stream requests received so far
  audioStreamingHits, \* hit counter of audioStreamingLimit, per requester
  qualityHits,   \* hit counter of qualityBasedLimit, per requester
  optimize,      \* the POST /optimize/:audioFileId request
  sweep,         \* the cleanupExpiredFiles run
  expiredIds,    \* ids of the records whose cacheExpiresAt has passed
  chapterContent, \* chapter.content of the chapter that is segmented
  segmented,     \* results of the preprocessForAudio calls so far
  syncServed,    \* segments_<id> metadata entry and the served sync segments
  ttsCalls,      \* calls of TTSService.generateSpeech / estimateCost so far
  cleanupService \* the CleanupService object and the timers it installed

genVars == <<hour, costTracker, audioFiles, disk, book, reqs, job, jobsRun>>

cacheVars == <<audioFileCache, fillerKeys, chapterAudio, gets, preload, resp>>

auxVars == <<minute, bandwidthTracker, streams, emitted, arrivals,
             audioStreamingHits, qualityHits, optimize, sweep, expiredIds>>

extVars == <<chapterContent, segmented, syncServed, ttsCalls, cleanupService>>

vars == <<genVars, cacheVars, auxVars, extVars>>

-----------------------------------------------------------------------------
(* Bounds of the model *)

MaxReqs == 2
MaxJobs == 1
MaxJobReqs == 1
MaxHour == 2
MaxGets == 1
MaxRange == 3
MaxGetters == 2
MaxLedgerReqs == 3
MaxMinute == 1
MaxOpenStreams == 2
MaxStreams == 4
MaxLimiterReqs == 21
MaxOptimizeRuns == 2
MaxTextLen == 5
MaxSegmenterCalls == 2
MaxTtsCalls == 2
MaxCleanupCalls == 5
MaxCleanupRuns == 3

(* Program constants, micro-dollars *)

ChapterCostCap == 100000
BookCostCap == 1000000
ChapterHourCap == 500000
BookHourCap == 2000000
UploadCostCap == 2000000
BatchSize == 3

-----------------------------------------------------------------------------
(* Data *)

Users == {"u1"}

\* chapter.content lengths of the book's chapters, in chapterNumber order
ChapterLen == <<800, 20000, 24000, 36000>>

Chapters == 1..Len(ChapterLen)

\* getAvailableVoices(): id -> provider, costPerChar
VoiceTable ==
  [v \in {"en-US-Standard-A", "en-US-Standard-B", "en-US-Standard-C",
          "en-US-Standard-D", "en-US-JennyNeural", "en-US-GuyNeural",
          "en-US-AriaNeural", "Joanna", "Matthew", "Ivy"} |->
     IF v \in {"en-US-Standard-A", "en-US-Standard-B", "en-US-Standard-C",
               "en-US-Standard-D"}
       THEN [provider |-> "google", costPerChar |-> 16]
       ELSE IF v \in {"en-US-JennyNeural", "en-US-GuyNeural", "en-US-AriaNeural"}
         THEN [provider |-> "azure", costPerChar |-> 4]
         ELSE [provider |-> "amazon", costPerChar |-> 4]]

\* voices that requests of the model name; "nope" is in no voice table
ReqVoices == {"Joanna", "en-US-Standard-A", "nope"}

\* request.provider; "none" is an absent field
ReqProviders == {"none", "google", "azure"}

\* Math.round(x / d) for non-negative x
RoundDiv(x, d) == (2 * x + d) \div (2 * d)

estimateCostDefaultVoice(len, voice) ==
  IF voice \notin DOMAIN VoiceTable
    THEN [ok |-> TRUE, cost |-> 0, provider |-> "google"]
    ELSE [ok |-> TRUE,
          cost |-> RoundDiv(len * VoiceTable[voice].costPerChar, 100) * 100,
          provider |-> VoiceTable[voice].provider]

\* TTSService.estimateCost: throws for an unknown voice, else the cost
\* rounded to 4 decimals (to a multiple of 100 micro-dollars)
estimateCost(len, voice) ==
  IF voice \notin DOMAIN VoiceTable
    THEN [ok |-> FALSE, cost |-> 0, provider |-> "none"]
    ELSE [ok |-> TRUE,
          cost |-> RoundDiv(len * VoiceTable[voice].costPerChar, 100) * 100,
          provider |-> VoiceTable[voice].provider]

getBestProvider(len) ==
  IF len < 1000 THEN "amazon" ELSE IF len < 5000 THEN "google" ELSE "azure"

calculateGoogleCost(characters) == characters * 16
calculateAzureCost(characters) == characters * 4
calculateAmazonCost(characters) == characters * 4

\* TTSService.generateSpeech: the provider that is invoked
generateSpeechProvider(len, provider) ==
  IF provider = "none" THEN getBestProvider(len) ELSE provider

\* cost field of the TTSResult of a successful generateSpeech
generateSpeechCost(len, provider) ==
  LET p == generateSpeechProvider(len, provider) IN
  IF p = "google" THEN calculateGoogleCost(len)
  ELSE IF p = "azure" THEN calculateAzureCost(len)
  ELSE calculateAmazonCost(len)

\* audio bytes a provider returns for a chapter
SynthBytes(ch) == [i \in 1..(ch + 1) |-> 10 * ch + i]

-----------------------------------------------------------------------------
(* Cost ledger (audio-rate-limit.ts) *)

\* costTracker.get<number>(key) || 0
LedgerGet(tracker, key) == IF key \in DOMAIN tracker THEN tracker[key] ELSE 0

\* costTracker.set(key, value)
LedgerSet(tracker, key, value) ==
  [k \in DOMAIN tracker \cup {key} |-> IF k = key THEN value ELSE tracker[k]]

\* estimatedCost of costLimitMiddleware: $8 per 1M characters of req.body.text;
\* bodyTextLen = 0 when the body has no text field
MiddlewareEstimate(bodyTextLen) == bodyTextLen * 8

\* the 429 condition of costLimitMiddleware
\* costLimitExceeded reading the buckets of all hours of the requester
costLimitExceededAllHours(tracker, key, estimated, maxCostPerHour) ==
  LET RECURSIVE Total(_)
      Total(K) == IF K = {} THEN 0
                  ELSE LET k == CHOOSE x \in K : TRUE
                       IN tracker[k] + Total(K \ {k})
  IN Total({k \in DOMAIN tracker : k[1] = key[1]}) + estimated
       > maxCostPerHour

costLimitExceeded(tracker, key, estimated, maxCostPerHour) ==
  LedgerGet(tracker, key) + estimated > maxCostPerHour

\* updateCostTracking(req, actualCost); key = <<>> when req.costKey is unset
updateCostTracking(tracker, key, actualCost) ==
  IF key = <<>> THEN tracker
  ELSE LedgerSet(tracker, key, LedgerGet(tracker, key) + actualCost)

-----------------------------------------------------------------------------
(* Durable store helpers *)

\* prisma.audioFile.findFirst({where: {bookId, chapterId, voiceUsed}})
FindFirstMatches(files, ch, voice) ==
  {f \in files : f.chapterId = ch /\ f.voiceUsed = voice}

\* the record prisma.audioFile.create stores
NewAudioFile(id, ch, voice, tts) ==
  [id |-> id, chapterId |-> ch, voiceUsed |-> voice,
   ttsProvider |-> tts.provider, generationCostUsd |-> tts.cost,
   filePath |-> tts.filePath, fileSizeBytes |-> tts.size]

\* TTSResult of a successful generateSpeech; saveAudioFile names the file
\* provider_voice_timestamp
TTSResult(len, ch, voice, provider, stamp) ==
  [provider |-> generateSpeechProvider(len, provider),
   cost |-> generateSpeechCost(len, provider),
   filePath |-> <<generateSpeechProvider(len, provider), voice, stamp>>,
   size |-> Len(SynthBytes(ch))]

NoTTS == [provider |-> "none", cost |-> 0, filePath |-> <<>>, size |-> 0]

WriteFile(d, path, bytes) ==
  [p \in DOMAIN d \cup {path} |-> IF p = path THEN bytes ELSE d[p]]

-----------------------------------------------------------------------------
(* POST /books/:bookId/chapters/:chapterId/audio *)

NoEff == [calls |-> 0, created |-> 0, bookUpd |-> 0, charged |-> 0]

NoResp == [status |-> 0, kind |-> "none", audioFile |-> <<>>]

IdleReq ==
  [pc |-> "idle", user |-> "none", chapterId |-> 0, voice |-> "none",
   provider |-> "none", costKey |-> <<>>, tts |-> NoTTS, resp |-> NoResp,
   eff |-> NoEff]

\* ChapterDecision with the per-chapter cap check comparing against the
\* per-hour ceiling
ChapterDecisionHourCap(files, len, ch, voice) ==
  IF FindFirstMatches(files, ch, voice) # {} THEN "exists"
  ELSE IF ~estimateCost(len, voice).ok THEN "throw"
  ELSE IF estimateCost(len, voice).cost > ChapterHourCap THEN "tooCostly"
  ELSE "generate"

\* ChapterDecision without the check for an existing audio file
ChapterDecisionRegenerate(files, len, ch, voice) ==
  IF ~estimateCost(len, voice).ok THEN "throw"
  ELSE IF estimateCost(len, voice).cost > ChapterCostCap THEN "tooCostly"
  ELSE "generate"

\* the decision taken after findFirst has answered (lines 38-61)
ChapterDecision(files, len, ch, voice) ==
  IF FindFirstMatches(files, ch, voice) # {} THEN "exists"
  ELSE IF ~estimateCost(len, voice).ok THEN "throw"
  ELSE IF estimateCost(len, voice).cost > ChapterCostCap THEN "tooCostly"
  ELSE "generate"

\* ttsGenerationLimit, costLimitMiddleware(0.50), then the handler up to its
\* first await (prisma.chapter.findUnique)
ChapterRequest(r, u, ch, v, p) ==
  /\ reqs[r].pc = "idle"
  /\ IF r = 1 THEN TRUE ELSE reqs[r - 1].pc # "idle"
  /\ IF costLimitExceeded(costTracker, <<u, hour>>, MiddlewareEstimate(0),
                          ChapterHourCap)
       THEN reqs' = [reqs EXCEPT ![r] =
                [@ EXCEPT !.pc = "done", !.user = u, !.chapterId = ch,
                          !.voice = v, !.provider = p,
                          !.resp = [NoResp EXCEPT !.status = 429,
                                                  !.kind = "costLimit"]]]
       ELSE reqs' = [reqs EXCEPT ![r] =
                [@ EXCEPT !.pc = "findChapter", !.user = u, !.chapterId = ch,
                          !.voice = v, !.provider = p,
                          !.costKey = <<u, hour>>]]
  /\ UNCHANGED <<hour, costTracker, audioFiles, disk, book, job, jobsRun>>
  /\ UNCHANGED <<cacheVars, auxVars, extVars>>

\* findUnique answered: the chapter exists; findFirst is issued
ChapterFound(r) ==
  /\ reqs[r].pc = "findChapter"
  /\ reqs' = [reqs EXCEPT ![r].pc = "findExisting"]
  /\ UNCHANGED <<hour, costTracker, audioFiles, disk, book, job, jobsRun>>
  /\ UNCHANGED <<cacheVars, auxVars, extVars>>

\* findFirst answered: existing artifact, cost estimate and cap check, then
\* generateSpeech is called
ChapterExisting(r) ==
  /\ reqs[r].pc = "findExisting"
  /\ LET q == reqs[r]
         d == ChapterDecision(audioFiles, ChapterLen[q.chapterId],
                              q.chapterId, q.voice)
     IN reqs' = [reqs EXCEPT ![r] =
          IF d = "exists"
            THEN [q EXCEPT !.pc = "done",
                    !.resp = [status |-> 200, kind |-> "exists",
                              audioFile |->
                                (CHOOSE f \in FindFirstMatches(audioFiles,
                                    q.chapterId, q.voice) : TRUE).id]]
          ELSE IF d = "throw"
            THEN [q EXCEPT !.pc = "done",
                    !.resp = [NoResp EXCEPT !.status = 500, !.kind = "error"]]
          ELSE IF d = "tooCostly"
            THEN [q EXCEPT !.pc = "done",
                    !.resp = [NoResp EXCEPT !.status = 400,
                                            !.kind = "tooCostly"]]
          ELSE [q EXCEPT !.pc = "synth"]]
  /\ UNCHANGED <<hour, costTracker, audioFiles, disk, book, job, jobsRun>>
  /\ UNCHANGED <<cacheVars, auxVars, extVars>>

\* the provider call returns: audio saved to a file, or the call fails and the
\* handler's catch forwards the error
ChapterSynth(r, ok) ==
  /\ reqs[r].pc = "synth"
  /\ LET q == reqs[r]
         t == TTSResult(ChapterLen[q.chapterId], q.chapterId, q.voice,
                        q.provider, <<"req", r>>)
     IN IF ok
          THEN /\ reqs' = [reqs EXCEPT ![r] =
                    [q EXCEPT !.pc = "create", !.tts = t,
                              !.eff.calls = @ + 1]]
               /\ disk' = WriteFile(disk, t.filePath, SynthBytes(q.chapterId))
          ELSE /\ reqs' = [reqs EXCEPT ![r] =
                    [q EXCEPT !.pc = "done", !.eff.calls = @ + 1,
                              !.resp = [NoResp EXCEPT !.status = 500,
                                                      !.kind = "error"]]]
               /\ UNCHANGED disk
  /\ UNCHANGED <<hour, costTracker, audioFiles, book, job, jobsRun>>
  /\ UNCHANGED <<cacheVars, auxVars, extVars>>

\* prisma.audioFile.create
ChapterCreate(r) ==
  /\ reqs[r].pc = "create"
  /\ LET q == reqs[r] IN
       /\ audioFiles' = audioFiles \cup
                          {NewAudioFile(<<"req", r>>, q.chapterId, q.voice, q.tts)}
       /\ reqs' = [reqs EXCEPT ![r] =
            [q EXCEPT !.pc = "updateBook", !.eff.created = @ + 1,
                      !.resp = [NoResp EXCEPT !.audioFile = <<"req", r>>]]]
  /\ UNCHANGED <<hour, costTracker, disk, book, job, jobsRun>>
  /\ UNCHANGED <<cacheVars, auxVars, extVars>>

\* prisma.book.update, then updateCostTracking and the response
ChapterUpdateBook(r) ==
  /\ reqs[r].pc = "updateBook"
  /\ LET q == reqs[r] IN
       /\ book' = [book EXCEPT !.hasAudio = TRUE,
                               !.audioGenerationStatus = "COMPLETED",
                               !.audioCostUsd = @ + q.tts.cost]
       /\ costTracker' = updateCostTracking(costTracker, q.costKey, q.tts.cost)
       /\ reqs' = [reqs EXCEPT ![r] =
            [q EXCEPT !.pc = "done", !.eff.bookUpd = @ + 1,
                      !.eff.charged = @ + q.tts.cost,
                      !.resp = [@ EXCEPT !.status = 200,
                                         !.kind = "generated"]]]
  /\ UNCHANGED <<hour, audioFiles, disk, job, jobsRun>>
  /\ UNCHANGED <<cacheVars, auxVars, extVars>>

-----------------------------------------------------------------------------
(* POST /books/:bookId/audio/generate *)

NoResult == [status |-> "none", cost |-> 0, audioFile |-> <<>>]

NoJobResp == [status |-> 0, chaptersProcessed |-> 0, successful |-> 0,
              failed |-> 0, totalCost |-> 0]

IdleJob ==
  [kind |-> "route", pc |-> "idle", voice |-> "none", provider |-> "none", costKey |-> <<>>,
   first |-> 1,
   mpc |-> [c \in Chapters |-> "none"],
   mtts |-> [c \in Chapters |-> NoTTS],
   mcalls |-> [c \in Chapters |-> 0],
   results |-> [c \in Chapters |-> NoResult],
   writes |-> <<>>, delays |-> 0, fault |-> FALSE, resp |-> NoJobResp]

RECURSIVE SumOver(_, _)
\* sum of f[c] over the finite set S
SumOver(f, S) ==
  IF S = {} THEN 0
  ELSE LET c == CHOOSE x \in S : TRUE IN f[c] + SumOver(f, S \ {c})

\* BookEstimate with the estimate of the first chapter only
BookEstimateFirstChapter(voice) ==
  IF Chapters # {} /\ voice \notin DOMAIN VoiceTable
    THEN [ok |-> FALSE, cost |-> 0]
    ELSE [ok |-> TRUE, cost |-> estimateCost(ChapterLen[1], voice).cost]

\* the estimate loop of lines 134-139: throws if the voice is unknown and
\* the book has a chapter
BookEstimate(voice) ==
  IF Chapters # {} /\ voice \notin DOMAIN VoiceTable
    THEN [ok |-> FALSE, cost |-> 0]
    ELSE [ok |-> TRUE,
          cost |-> SumOver([c \in Chapters |->
                              estimateCost(ChapterLen[c], voice).cost],
                           Chapters)]

\* book.chapters.slice(i, i + batchSize), as 1-based chapter numbers
BatchOf(first) == {c \in Chapters : first <= c /\ c < first + BatchSize}

\* `i + batchSize < book.chapters.length` for i = first - 1
MoreBatches(first) == first + BatchSize <= Len(ChapterLen)

\* BatchResolved with the batch awaited by Promise.race
BatchResolvedRace(mpc, first) == \E c \in BatchOf(first) : mpc[c] = "done"

\* Promise.all(batchPromises) has resolved
BatchResolved(mpc, first) == \A c \in BatchOf(first) : mpc[c] = "done"

\* batch.map(async ...) runs each member up to its first await that leaves
\* the process: findFirst in the route, generateSpeech in the upload job
StartBatch(mpc, first, kind) ==
  [c \in Chapters |->
     IF c \in BatchOf(first)
       THEN (IF kind = "route" THEN "check" ELSE "synth")
       ELSE mpc[c]]

\* length of preprocessForAudio(content).processedText; the chapters of the
\* model contain none of the abbreviations it expands
ProcessedLen(c) == ChapterLen[c]

\* text length a member hands to generateSpeech
MemberTextLen(kind, c) ==
  IF kind = "route" THEN ChapterLen[c] ELSE ProcessedLen(c)

\* upload route: audioEstimate of the chapters joined by ' ', and the
\* condition under which the background generation is scheduled
UploadEstimate(voice) ==
  estimateCost(SumOver([c \in Chapters |-> ChapterLen[c]], Chapters)
                 + Len(ChapterLen) - 1, voice)

UploadSchedules(voice) ==
  UploadEstimate(voice).ok /\ UploadEstimate(voice).cost < UploadCostCap

successfulOf(results) == {c \in Chapters : results[c].status = "generated"}
failedOf(results) == {c \in Chapters : results[c].status = "failed"}
processedOf(results) == {c \in Chapters : results[c].status # "none"}

\* FinalStatus with FAILED written when a chapter failed
FinalStatusStrict(results) ==
  IF Cardinality(failedOf(results)) = 0 THEN "COMPLETED" ELSE "FAILED"

\* `failed.length === 0 ? 'COMPLETED' : 'COMPLETED'`
FinalStatus(results) ==
  IF Cardinality(failedOf(results)) = 0 THEN "COMPLETED" ELSE "COMPLETED"

totalActualCost(results) ==
  SumOver([c \in Chapters |-> results[c].cost], successfulOf(results))

\* ttsGenerationLimit, costLimitMiddleware(2.00), then the handler up to its
\* first await (prisma.book.findUnique)
JobRequest(u, v, p) ==
  /\ job.pc \in {"idle", "done"}
  /\ jobsRun < MaxJobs
  /\ jobsRun' = jobsRun + 1
  /\ IF costLimitExceeded(costTracker, <<u, hour>>, MiddlewareEstimate(0),
                          BookHourCap)
       THEN job' = [IdleJob EXCEPT !.pc = "done", !.voice = v, !.provider = p,
                                   !.resp = [NoJobResp EXCEPT !.status = 429]]
       ELSE job' = [IdleJob EXCEPT !.pc = "findBook", !.voice = v,
                                   !.provider = p, !.costKey = <<u, hour>>]
  /\ UNCHANGED <<hour, costTracker, audioFiles, disk, book, reqs>>
  /\ UNCHANGED <<cacheVars, auxVars, extVars>>

\* findUnique answered with the book: cost estimate, cap check, and the
\* update to PROCESSING is issued
JobFound ==
  /\ job.pc = "findBook"
  /\ LET e == BookEstimate(job.voice) IN
       job' = IF ~e.ok THEN [job EXCEPT !.pc = "catch"]
              ELSE IF e.cost > BookCostCap
                THEN [job EXCEPT !.pc = "done",
                                 !.resp = [NoJobResp EXCEPT !.status = 400]]
              ELSE [job EXCEPT !.pc = "setProcessing"]
  /\ UNCHANGED <<hour, costTracker, audioFiles, disk, book, reqs, jobsRun>>
  /\ UNCHANGED <<cacheVars, auxVars, extVars>>

\* what follows the loop: the final book.update is issued
AfterBatches(j) == [j EXCEPT !.pc = "final"]

\* book.update(PROCESSING) done; the first batch starts
JobProcessing ==
  /\ job.pc = "setProcessing"
  /\ book' = [book EXCEPT !.audioGenerationStatus = "PROCESSING"]
  /\ job' = IF Chapters = {}
              THEN AfterBatches([job EXCEPT !.writes = Append(@, "PROCESSING")])
              ELSE [job EXCEPT !.pc = "batch", !.first = 1,
                               !.mpc = StartBatch(job.mpc, 1, job.kind),
                               !.writes = Append(@, "PROCESSING")]
  /\ UNCHANGED <<hour, costTracker, audioFiles, disk, reqs, jobsRun>>
  /\ UNCHANGED <<cacheVars, auxVars, extVars>>

\* a member's findFirst answered: 'exists', or generateSpeech is called
MemberCheck(c) ==
  /\ job.pc = "batch" /\ job.mpc[c] = "check"
  /\ LET m == FindFirstMatches(audioFiles, c, job.voice) IN
       job' = IF m # {}
                THEN [job EXCEPT !.mpc[c] = "done",
                        !.results[c] = [status |-> "exists", cost |-> 0,
                                        audioFile |-> (CHOOSE f \in m : TRUE).id]]
                ELSE [job EXCEPT !.mpc[c] = "synth"]
  /\ UNCHANGED <<hour, costTracker, audioFiles, disk, book, reqs, jobsRun>>
  /\ UNCHANGED <<cacheVars, auxVars, extVars>>

\* a member's provider call returns, or fails and the member's catch turns
\* the error into a 'failed' result
MemberSynth(c, ok) ==
  /\ job.pc = "batch" /\ job.mpc[c] = "synth"
  /\ LET t == TTSResult(MemberTextLen(job.kind, c), c, job.voice,
                        job.provider, <<"job", jobsRun, c>>) IN
       IF ok
         THEN /\ job' = [job EXCEPT !.mpc[c] = "create", !.mtts[c] = t,
                                    !.mcalls[c] = @ + 1]
              /\ disk' = WriteFile(disk, t.filePath, SynthBytes(c))
         ELSE /\ job' = [job EXCEPT !.mpc[c] = "done", !.mcalls[c] = @ + 1,
                                    !.results[c] =
                                      IF job.kind = "route"
                                        THEN [NoResult EXCEPT
                                                !.status = "failed"]
                                        ELSE NoResult]
              /\ UNCHANGED disk
  /\ UNCHANGED <<hour, costTracker, audioFiles, book, reqs, jobsRun>>
  /\ UNCHANGED <<cacheVars, auxVars, extVars>>

\* a member's prisma.audioFile.create
MemberCreate(c) ==
  /\ job.pc = "batch" /\ job.mpc[c] = "create"
  /\ audioFiles' = audioFiles \cup
                     {NewAudioFile(<<"job", jobsRun, c>>, c, job.voice,
                                   job.mtts[c])}
  /\ job' = [job EXCEPT !.mpc[c] = "done",
                        !.results[c] =
                          IF job.kind = "route"
                            THEN [status |-> "generated",
                                  cost |-> job.mtts[c].cost,
                                  audioFile |-> <<"job", jobsRun, c>>]
                            ELSE NoResult]
  /\ UNCHANGED <<hour, costTracker, disk, book, reqs, jobsRun>>
  /\ UNCHANGED <<cacheVars, auxVars, extVars>>

\* Promise.all (route) or Promise.allSettled (upload job) resolved: the delay
\* is started if another batch follows, else the final update is issued
BatchAwait ==
  /\ job.pc = "batch"
  /\ BatchResolved(job.mpc, job.first)
  /\ job' = IF MoreBatches(job.first)
              THEN [job EXCEPT !.pc = "delay"]
              ELSE AfterBatches(job)
  /\ UNCHANGED <<hour, costTracker, audioFiles, disk, book, reqs, jobsRun>>
  /\ UNCHANGED <<cacheVars, auxVars, extVars>>

\* setTimeout(resolve, 1000) fired: the next batch starts
DelayElapsed ==
  /\ job.pc = "delay"
  /\ job' = [job EXCEPT !.pc = "batch", !.first = @ + BatchSize,
                        !.mpc = StartBatch(job.mpc, job.first + BatchSize,
                                           job.kind),
                        !.delays = @ + 1]
  /\ UNCHANGED <<hour, costTracker, audioFiles, disk, book, reqs, jobsRun>>
  /\ UNCHANGED <<cacheVars, auxVars, extVars>>

\* the final book.update of the upload job done
BackgroundFinal ==
  /\ job.pc = "final" /\ job.kind = "background"
  /\ book' = [book EXCEPT !.hasAudio = TRUE,
                          !.audioGenerationStatus = "COMPLETED"]
  /\ job' = [job EXCEPT !.pc = "done", !.writes = Append(@, "COMPLETED")]
  /\ UNCHANGED <<hour, costTracker, audioFiles, disk, reqs, jobsRun>>
  /\ UNCHANGED <<cacheVars, auxVars, extVars>>

\* the final book.update done; the aggregate result is sent
JobFinal ==
  /\ job.pc = "final" /\ job.kind = "route"
  /\ book' = [book EXCEPT
       !.hasAudio = Cardinality(successfulOf(job.results)) > 0,
       !.audioGenerationStatus = FinalStatus(job.results),
       !.audioCostUsd = totalActualCost(job.results)]
  /\ job' = [job EXCEPT !.pc = "done",
       !.writes = Append(@, FinalStatus(job.results)),
       !.resp = [status |-> 200,
                 chaptersProcessed |-> Cardinality(processedOf(job.results)),
                 successful |-> Cardinality(successfulOf(job.results)),
                 failed |-> Cardinality(failedOf(job.results)),
                 totalCost |-> totalActualCost(job.results)]]
  /\ UNCHANGED <<hour, costTracker, audioFiles, disk, reqs, jobsRun>>
  /\ UNCHANGED <<cacheVars, auxVars, extVars>>

\* upload route, setImmediate callback: the background generation starts
BackgroundRun ==
  /\ job.pc = "scheduled"
  /\ job' = [job EXCEPT !.pc = "batch", !.first = 1,
                        !.mpc = StartBatch(job.mpc, 1, job.kind)]
  /\ UNCHANGED <<hour, costTracker, audioFiles, disk, book, reqs, jobsRun>>
  /\ UNCHANGED <<cacheVars, auxVars, extVars>>

\* an awaited prisma call of the handler body rejects (store unreachable):
\* control passes to the top-level catch
JobFault ==
  /\ job.pc \in {"findBook", "setProcessing", "final"}
  /\ job' = [job EXCEPT !.pc = "catch", !.fault = TRUE]
  /\ UNCHANGED <<hour, costTracker, audioFiles, disk, book, reqs, jobsRun>>
  /\ UNCHANGED <<cacheVars, auxVars, extVars>>

\* next(error) of the route; the upload job has no response to send
JobErrorResp(kind) ==
  IF kind = "route" THEN [NoJobResp EXCEPT !.status = 500] ELSE NoJobResp

\* the catch block: book.update(FAILED), whose own failure is ignored, then
\* next(error)
JobCatch(ok) ==
  /\ job.pc = "catch"
  /\ IF ok
       THEN /\ book' = [book EXCEPT !.audioGenerationStatus = "FAILED"]
            /\ job' = [job EXCEPT !.pc = "done",
                                  !.writes = Append(@, "FAILED"),
                                  !.resp = JobErrorResp(job.kind)]
       ELSE /\ book' = book
            /\ job' = [job EXCEPT !.pc = "done",
                                  !.resp = JobErrorResp(job.kind)]
  /\ UNCHANGED <<hour, costTracker, audioFiles, disk, reqs, jobsRun>>
  /\ UNCHANGED <<cacheVars, auxVars, extVars>>

\* the wall clock passes an hour boundary
Tick ==
  /\ hour < MaxHour
  /\ hour' = hour + 1
  /\ UNCHANGED <<costTracker, audioFiles, disk, book, reqs, job, jobsRun>>
  /\ UNCHANGED <<cacheVars, auxVars, extVars>>

\* the stdTTL of 3600 s of a cost bucket runs out; every write of the bucket
\* happens in its hour or later, so the TTL ends after the bucket's hour
LedgerExpire(k) ==
  /\ k \in DOMAIN costTracker
  /\ k[2] < hour
  /\ costTracker' = [x \in DOMAIN costTracker \ {k} |-> costTracker[x]]
  /\ UNCHANGED <<hour, audioFiles, disk, book, reqs, job, jobsRun>>
  /\ UNCHANGED <<cacheVars, auxVars, extVars>>

-----------------------------------------------------------------------------
(* Text of header values: sequences of one-character strings *)

DigitChars == <<"0", "1", "2", "3", "4", "5", "6", "7", "8", "9">>

IsDigit(c) == \E i \in 1..10 : DigitChars[i] = c

DigitVal(c) == (CHOOSE i \in 1..10 : DigitChars[i] = c) - 1

\* a JavaScript number that may be NaN
Num(n) == [nan |-> FALSE, v |-> n]
NaN == [nan |-> TRUE, v |-> 0]

RECURSIVE Digits(_)
\* Number.prototype.toString of a non-negative integer
Digits(n) ==
  IF n < 10 THEN <<DigitChars[n + 1]>>
  ELSE Digits(n \div 10) \o <<DigitChars[(n % 10) + 1]>>

\* template-literal / toString() text of a number
NumText(x) ==
  IF x.nan THEN <<"N", "a", "N">>
  ELSE IF x.v < 0 THEN <<"-">> \o Digits(-x.v)
  ELSE Digits(x.v)

RECURSIVE DigitPrefix(_)
\* the longest prefix of s made of decimal digits
DigitPrefix(s) ==
  IF s = <<>> \/ ~IsDigit(Head(s)) THEN <<>>
  ELSE <<Head(s)>> \o DigitPrefix(Tail(s))

RECURSIVE DigitsValue(_, _)
DigitsValue(s, acc) ==
  IF s = <<>> THEN acc ELSE DigitsValue(Tail(s), 10 * acc + DigitVal(Head(s)))

\* parseInt(s, 10) of a text without sign or leading blanks: the value of
\* the leading digits, NaN when there is none
parseInt(s) ==
  IF DigitPrefix(s) = <<>> THEN NaN ELSE Num(DigitsValue(DigitPrefix(s), 0))

\* String.prototype.replace(pattern, '') with a literal pattern: the first
\* occurrence is removed
RemoveFirst(s, pat) ==
  LET hits == {i \in 1..(Len(s) - Len(pat) + 1) :
                 SubSeq(s, i, i + Len(pat) - 1) = pat}
  IN IF hits = {} THEN s
     ELSE LET i == CHOOSE h \in hits : \A k \in hits : h <= k
          IN SubSeq(s, 1, i - 1) \o SubSeq(s, i + Len(pat), Len(s))

RECURSIVE Split(_, _)
\* String.prototype.split(sep) for a one-character separator
Split(s, sep) ==
  LET hits == {i \in 1..Len(s) : s[i] = sep}
  IN IF hits = {} THEN <<s>>
     ELSE LET i == CHOOSE h \in hits : \A k \in hits : h <= k
          IN <<SubSeq(s, 1, i - 1)>> \o Split(SubSeq(s, i + 1, Len(s)), sep)

BytesEq == <<"b", "y", "t", "e", "s", "=">>

-----------------------------------------------------------------------------
(* Audio cache (audio-cache.service.ts) *)

maxKeys == 50
maxMbpsPerUser == 5
audioStreamingMax == 100

\* the digest of crypto.createHash('md5'), as a position-weighted checksum
RECURSIVE WeightedSum(_, _)
WeightedSum(buf, i) ==
  IF i > Len(buf) THEN 0 ELSE i * buf[i] + WeightedSum(buf, i + 1)

MD5(buf) == (Len(buf) + 31 * WeightedSum(buf, 1)) % 65521

\* generateETag naming the length of the buffer
generateETagOfLength(buffer) == Len(buffer)

generateETag(buffer) == MD5(buffer)

\* this.stats.keys of audioFileCache
KeyCount(cache, filler) == Cardinality(DOMAIN cache) + filler

\* SetThrows with the throw only above maxKeys
SetThrowsAbove(cache, filler) == KeyCount(cache, filler) > maxKeys

\* NodeCache.set throws ECACHEFULL when the key count has reached maxKeys
SetThrows(cache, filler) == KeyCount(cache, filler) >= maxKeys

\* the entry cacheAudioFile builds (lastAccessed is a timestamp, left out)
NewEntry(id, buffer) ==
  [filePath |-> <<"cached", id>>, buffer |-> buffer,
   contentType |-> "audio/mpeg", size |-> Len(buffer),
   etag |-> generateETag(buffer)]

NoEntry == [filePath |-> <<>>, buffer |-> <<>>, contentType |-> "none",
            size |-> 0, etag |-> 0]

\* cacheAudioFile(id, buffer): the existing entry when its etag matches,
\* else a new entry is set; a throw of set is rethrown
cacheAudioFile(cache, filler, id, buffer) ==
  IF id \in DOMAIN cache /\ cache[id].etag = generateETag(buffer)
    THEN [threw |-> FALSE, cache |-> cache, entry |-> cache[id]]
  ELSE IF SetThrows(cache, filler)
    THEN [threw |-> TRUE, cache |-> cache, entry |-> NoEntry]
  ELSE [threw |-> FALSE,
        cache |-> [k \in DOMAIN cache \cup {id} |->
                     IF k = id THEN NewEntry(id, buffer) ELSE cache[k]],
        entry |-> NewEntry(id, buffer)]

\* prisma.audioFile.findUnique({where: {id}})
FindUnique(files, id) == {f \in files : f.id = id}

-----------------------------------------------------------------------------
(* GET /stream/:audioFileId: the response built from a cache entry *)

NoRange == [present |-> FALSE, text |-> <<>>]

\* adjustOffset of Buffer.prototype.slice
adjustOffset(offset, length) ==
  IF offset.nan \/ offset.v = 0 THEN 0
  ELSE IF offset.v < 0
    THEN (IF offset.v + length > 0 THEN offset.v + length ELSE 0)
  ELSE IF offset.v < length THEN offset.v
  ELSE length

\* buffer.slice(start, end)
BufferSlice(buffer, start, end) ==
  LET s == adjustOffset(start, Len(buffer))
      e == adjustOffset(end, Len(buffer))
  IN IF e > s THEN SubSeq(buffer, s + 1, e) ELSE <<>>

NumPlus(x, k) == IF x.nan THEN NaN ELSE Num(x.v + k)
NumMinus(x, y) == IF x.nan \/ y.nan THEN NaN ELSE Num(x.v - y.v)

\* lines 40-43: start, end and chunkSize of a Range header
RangeStart(text) == parseInt(Split(RemoveFirst(text, BytesEq), "-")[1])

\* RangeEnd with an omitted end read as the size
RangeEndAtSize(text, size) ==
  LET parts == Split(RemoveFirst(text, BytesEq), "-")
  IN IF Len(parts) >= 2 /\ parts[2] # <<>>
       THEN parseInt(parts[2]) ELSE Num(size)

RangeEnd(text, size) ==
  LET parts == Split(RemoveFirst(text, BytesEq), "-")
  IN IF Len(parts) >= 2 /\ parts[2] # <<>>
       THEN parseInt(parts[2]) ELSE Num(size - 1)

ChunkSize(text, size) ==
  NumPlus(NumMinus(RangeEnd(text, size), RangeStart(text)), 1)

ContentRangeText(start, end, size) ==
  <<"b", "y", "t", "e", "s", " ">> \o NumText(start) \o <<"-">>
    \o NumText(end) \o <<"/">> \o Digits(size)

\* lines 28-54: status, headers and body sent for a cache entry
StreamResponse(id, entry, range, resolvable) ==
  IF range.present
    THEN [id |-> id, range |-> range, status |-> 206,
          contentRange |-> ContentRangeText(RangeStart(range.text),
                              RangeEnd(range.text, entry.size), entry.size),
          contentLength |-> NumText(ChunkSize(range.text, entry.size)),
          etag |-> entry.etag,
          body |-> BufferSlice(entry.buffer, RangeStart(range.text),
                               NumPlus(RangeEnd(range.text, entry.size), 1)),
          size |-> entry.size, resolvable |-> resolvable]
    ELSE [id |-> id, range |-> range, status |-> 200,
          contentRange |-> <<>>,
          contentLength |-> Digits(entry.size),
          etag |-> entry.etag, body |-> entry.buffer,
          size |-> entry.size, resolvable |-> resolvable]

\* NotFoundResponse with the fault passed on to the error handler (500)
FaultResponse(id, resolvable) ==
  [id |-> id, range |-> NoRange, status |-> 500, contentRange |-> <<>>,
   contentLength |-> <<>>, etag |-> 0, body |-> <<>>, size |-> 0,
   resolvable |-> resolvable]

\* next(createError('Audio file not found', 404))
NotFoundResponse(id, resolvable) ==
  [id |-> id, range |-> NoRange, status |-> 404, contentRange |-> <<>>,
   contentLength |-> <<>>, etag |-> 0, body |-> <<>>, size |-> 0,
   resolvable |-> resolvable]

NoStreamResp == [NotFoundResponse(<<>>, FALSE) EXCEPT !.status = 0]

\* the record of the id exists and its file can be read
Resolvable(files, d, id) ==
  \E f \in FindUnique(files, id) : f.filePath \in DOMAIN d

-----------------------------------------------------------------------------
(* getCachedAudioFile, as called by the stream route and by warmupCache *)

IdleGet == [pc |-> "idle", id |-> <<>>, kind |-> "none", path |-> <<>>]

\* Range headers of the requests of the model
HeaderFromTo(a, b) == BytesEq \o Digits(a) \o <<"-">> \o Digits(b)
HeaderFrom(a) == BytesEq \o Digits(a) \o <<"-">>
HeaderSuffix(n) == BytesEq \o <<"-">> \o Digits(n)

RangeHeaders ==
  {NoRange}
    \cup {[present |-> TRUE, text |-> HeaderFromTo(a, b)] :
            a \in 0..MaxRange, b \in 0..MaxRange}
    \cup {[present |-> TRUE, text |-> HeaderFrom(a)] : a \in 0..MaxRange}
    \cup {[present |-> TRUE, text |-> HeaderSuffix(n)] : n \in 1..MaxRange}

\* ids that requests of the model name; <<"req", 0>> has no record
RequestIds == {<<"req", 0>>, <<"req", 1>>, <<"req", 2>>}

\* stream route, memory cache hit: the entry is served at once
StreamHit(id, range) ==
  /\ id \in DOMAIN audioFileCache
  /\ resp' = StreamResponse(id, audioFileCache[id], range,
                            Resolvable(audioFiles, disk, id))
  /\ UNCHANGED <<audioFileCache, fillerKeys, chapterAudio, gets, preload>>
  /\ UNCHANGED <<genVars, auxVars, extVars>>

\* memory cache miss: prisma.audioFile.findUnique is issued
GetMiss(g, id, kind) ==
  /\ gets[g].pc = "idle"
  /\ \A h \in 1..(g - 1) : gets[h].pc # "idle"
  /\ id \notin DOMAIN audioFileCache
  /\ gets' = [gets EXCEPT ![g] = [IdleGet EXCEPT !.pc = "lookup", !.id = id,
                                                 !.kind = kind]]
  /\ UNCHANGED <<audioFileCache, fillerKeys, chapterAudio, preload, resp>>
  /\ UNCHANGED <<genVars, auxVars, extVars>>

\* findUnique answered: null when there is no record or when the lookup
\* failed (outer catch), else fs.readFile of the record's file path is issued
GetLookup(g, ok) ==
  /\ gets[g].pc = "lookup"
  /\ LET found == FindUnique(audioFiles, gets[g].id) IN
       IF found = {} \/ ~ok
         THEN /\ gets' = [gets EXCEPT ![g] = IdleGet]
              /\ resp' = IF gets[g].kind = "stream"
                           THEN NotFoundResponse(gets[g].id,
                                  Resolvable(audioFiles, disk, gets[g].id))
                           ELSE resp
         ELSE /\ gets' = [gets EXCEPT ![g].pc = "read",
                            ![g].path = (CHOOSE f \in found : TRUE).filePath]
              /\ resp' = resp
  /\ UNCHANGED <<audioFileCache, fillerKeys, chapterAudio, preload>>
  /\ UNCHANGED <<genVars, auxVars, extVars>>

\* readFile answered: the bytes go through cacheAudioFile; a read error and
\* a throw of cacheAudioFile both end in the inner catch, which returns null
GetRead(g, range) ==
  /\ gets[g].pc = "read"
  /\ range = NoRange \/ gets[g].kind = "stream"
  /\ LET id == gets[g].id
         readable == gets[g].path \in DOMAIN disk
         c == IF readable
                THEN cacheAudioFile(audioFileCache, fillerKeys, id,
                                    disk[gets[g].path])
                ELSE [threw |-> TRUE, cache |-> audioFileCache,
                      entry |-> NoEntry]
     IN /\ audioFileCache' = c.cache
        /\ resp' = IF gets[g].kind # "stream" THEN resp
                   ELSE IF c.threw
                     THEN NotFoundResponse(id, Resolvable(audioFiles, disk, id))
                   ELSE StreamResponse(id, c.entry, range,
                                       Resolvable(audioFiles, disk, id))
  /\ gets' = [gets EXCEPT ![g] = IdleGet]
  /\ UNCHANGED <<fillerKeys, chapterAudio, preload>>
  /\ UNCHANGED <<genVars, auxVars, extVars>>

-----------------------------------------------------------------------------
(* preloadBookAudio, clearCache, TTL expiry *)

\* audio files that some chapter references, by chapterNumber
LinkedChapters(ca) == {c \in DOMAIN ca : ca[c] # <<>>}

RECURSIVE SortedByChapter(_, _, _)
\* the records of `files` that have chapters, in chapterNumber order
SortedByChapter(files, ca, from) ==
  IF from > Len(ca) THEN <<>>
  ELSE LET hit == {f \in files : ca[from] = f.id}
       IN (IF hit = {} \/ \E c \in 1..(from - 1) : ca[c] = ca[from]
             THEN <<>> ELSE <<CHOOSE f \in hit : TRUE>>)
          \o SortedByChapter(files, ca, from + 1)

\* priorityFiles: filter, sort, slice(0, 3)
priorityFiles(files, ca) ==
  LET sorted == SortedByChapter(files, ca, 1)
  IN SubSeq(sorted, 1, IF Len(sorted) < 3 THEN Len(sorted) ELSE 3)

\* findMany answered: the first readFile is issued
PreloadStart ==
  /\ preload.pc = "idle"
  /\ priorityFiles(audioFiles, chapterAudio) # <<>>
  /\ preload' = [pc |-> "read",
                 todo |-> priorityFiles(audioFiles, chapterAudio)]
  /\ UNCHANGED <<audioFileCache, fillerKeys, chapterAudio, gets, resp>>
  /\ UNCHANGED <<genVars, auxVars, extVars>>

\* readFile answered: cacheAudioFile; errors are caught per file
PreloadRead ==
  /\ preload.pc = "read"
  /\ LET f == Head(preload.todo)
         c == IF f.filePath \in DOMAIN disk
                THEN cacheAudioFile(audioFileCache, fillerKeys, f.id,
                                    disk[f.filePath])
                ELSE [threw |-> TRUE, cache |-> audioFileCache,
                      entry |-> NoEntry]
     IN audioFileCache' = c.cache
  /\ preload' = IF Len(preload.todo) = 1
                  THEN [pc |-> "idle", todo |-> <<>>]
                  ELSE [preload EXCEPT !.todo = Tail(@)]
  /\ UNCHANGED <<fillerKeys, chapterAudio, gets, resp>>
  /\ UNCHANGED <<genVars, auxVars, extVars>>

\* clearCache(): audioFileCache.flushAll()
ClearCache ==
  /\ audioFileCache # <<>> \/ fillerKeys # 0
  /\ audioFileCache' = <<>>
  /\ fillerKeys' = 0
  /\ UNCHANGED <<chapterAudio, gets, preload, resp>>
  /\ UNCHANGED <<genVars, auxVars, extVars>>

\* the 900 s TTL of an entry runs out
Expire(id) ==
  /\ id \in DOMAIN audioFileCache
  /\ audioFileCache' = [k \in DOMAIN audioFileCache \ {id} |->
                          audioFileCache[k]]
  /\ UNCHANGED <<fillerKeys, chapterAudio, gets, preload, resp>>
  /\ UNCHANGED <<genVars, auxVars, extVars>>

-----------------------------------------------------------------------------
(* Middlewares of GET /stream/:audioFileId (audio-rate-limit.ts):          *)
(* audioStreamingLimit, bandwidthLimitMiddleware(5), qualityBasedLimit     *)

IfNoneMatchValues == {"none", "match", "stale"}

Qualities == {"high", "medium", "low", "none"}

\* skip of audioStreamingLimit: `return !!ifNoneMatch`
skip(ifNoneMatch) == ifNoneMatch # "none"

\* max of qualityBasedLimit
qualityMax(quality) ==
  CASE quality = "high" -> 20
    [] quality = "medium" -> 50
    [] quality = "low" -> 100
    [] OTHER -> 50

\* bytes of the JSON message of qualityBasedLimit, which names the quality
\* ('medium' when the query has none)
qualityMessageBytes(quality) ==
  CASE quality = "high" -> 79
    [] quality = "low" -> 78
    [] OTHER -> 81

\* maxMbpsPerUser * 1024 * 1024 / 8 * 60
maxBytesPerMinute(mbps) == ((mbps * 1024 * 1024) \div 8) * 60

\* bandwidthTracker.get(key) || 0
BandwidthGet(tracker, key) ==
  IF key \in DOMAIN tracker THEN tracker[key] ELSE 0

\* bandwidthTracker.set(key, value)
BandwidthSet(tracker, key, value) ==
  [k \in DOMAIN tracker \cup {key} |-> IF k = key THEN value ELSE tracker[k]]

IdleStream ==
  [pc |-> "idle", user |-> "none", key |-> <<>>, currentUsage |-> 0,
   ifNoneMatch |-> "none", quality |-> "none", status |-> 0, by |-> "none",
   bytes |-> 0]

\* a stream request arrives and passes the three middlewares in order; the
\* hooks on res.send and res.end are installed by the second one, so the
\* 429 of qualityBasedLimit is sent through the hook
StreamArrive(i, u, inm, q, limit) ==
  /\ arrivals < limit
  /\ streams[i].pc # "open"
  /\ \A h \in 1..(i - 1) : streams[h].pc = "open"
  /\ arrivals' = arrivals + 1
  /\ LET key == <<u, minute>>
         usage == BandwidthGet(bandwidthTracker, key)
         sHits == IF skip(inm) THEN audioStreamingHits[u]
                  ELSE audioStreamingHits[u] + 1
         qHits == qualityHits[u] + 1
         req == [IdleStream EXCEPT !.user = u, !.key = key,
                                   !.ifNoneMatch = inm, !.quality = q]
     IN IF ~skip(inm) /\ sHits > audioStreamingMax
          THEN /\ audioStreamingHits' = [audioStreamingHits EXCEPT ![u] = sHits]
               /\ streams' = [streams EXCEPT ![i] =
                     [req EXCEPT !.pc = "done", !.status = 429,
                                 !.by = "audioStreamingLimit"]]
               /\ UNCHANGED <<qualityHits, bandwidthTracker, emitted>>
        ELSE IF usage > maxBytesPerMinute(maxMbpsPerUser)
          THEN /\ audioStreamingHits' = [audioStreamingHits EXCEPT ![u] = sHits]
               /\ streams' = [streams EXCEPT ![i] =
                     [req EXCEPT !.pc = "done", !.status = 429,
                                 !.by = "bandwidthLimit",
                                 !.currentUsage = usage]]
               /\ UNCHANGED <<qualityHits, bandwidthTracker, emitted>>
        ELSE IF qHits > qualityMax(q)
          THEN /\ audioStreamingHits' = [audioStreamingHits EXCEPT ![u] = sHits]
               /\ qualityHits' = [qualityHits EXCEPT ![u] = qHits]
               /\ bandwidthTracker' =
                    BandwidthSet(bandwidthTracker, key,
                                 usage + qualityMessageBytes(q))
               /\ emitted' =
                    BandwidthSet(emitted, key,
                      BandwidthGet(emitted, key) + qualityMessageBytes(q))
               /\ streams' = [streams EXCEPT ![i] =
                     [req EXCEPT !.pc = "done", !.status = 429,
                                 !.by = "qualityBasedLimit",
                                 !.currentUsage = usage,
                                 !.bytes = qualityMessageBytes(q)]]
        ELSE /\ audioStreamingHits' = [audioStreamingHits EXCEPT ![u] = sHits]
             /\ qualityHits' = [qualityHits EXCEPT ![u] = qHits]
             /\ streams' = [streams EXCEPT ![i] =
                   [req EXCEPT !.pc = "open", !.currentUsage = usage]]
             /\ UNCHANGED <<bandwidthTracker, emitted>>
  /\ UNCHANGED <<minute, optimize, sweep, expiredIds>>
  /\ UNCHANGED <<genVars, cacheVars, extVars>>

\* the handler ends the response with n body bytes: the hooked res.end
\* stores the usage read on arrival plus n
StreamEnd(i, n) ==
  /\ streams[i].pc = "open"
  /\ bandwidthTracker' =
       BandwidthSet(bandwidthTracker, streams[i].key,
                    streams[i].currentUsage + n)
  /\ emitted' = BandwidthSet(emitted, streams[i].key,
                             BandwidthGet(emitted, streams[i].key) + n)
  /\ streams' = [streams EXCEPT ![i].pc = "done", ![i].status = 200,
                                ![i].by = "handler", ![i].bytes = n]
  /\ UNCHANGED <<minute, arrivals, audioStreamingHits, qualityHits, optimize,
                 sweep, expiredIds>>
  /\ UNCHANGED <<genVars, cacheVars, extVars>>

\* the wall clock passes a minute boundary
MinuteTick ==
  /\ minute < MaxMinute
  /\ minute' = minute + 1
  /\ UNCHANGED <<bandwidthTracker, streams, emitted, arrivals,
                 audioStreamingHits, qualityHits, optimize, sweep, expiredIds>>
  /\ UNCHANGED <<genVars, cacheVars, extVars>>

\* the stdTTL of 60 s of a bandwidth entry runs out
BandwidthExpire(k) ==
  /\ k \in DOMAIN bandwidthTracker
  /\ k[2] < minute
  /\ bandwidthTracker' = [x \in DOMAIN bandwidthTracker \ {k} |->
                            bandwidthTracker[x]]
  /\ UNCHANGED <<minute, streams, emitted, arrivals, audioStreamingHits,
                 qualityHits, optimize, sweep, expiredIds>>
  /\ UNCHANGED <<genVars, cacheVars, extVars>>

\* the 15-minute window of audioStreamingLimit ends
StreamingWindowReset ==
  /\ \E u \in Users : audioStreamingHits[u] > 0
  /\ audioStreamingHits' = [u \in Users |-> 0]
  /\ UNCHANGED <<minute, bandwidthTracker, streams, emitted, arrivals,
                 qualityHits, optimize, sweep, expiredIds>>
  /\ UNCHANGED <<genVars, cacheVars, extVars>>

\* the 15-minute window of qualityBasedLimit ends
QualityWindowReset ==
  /\ \E u \in Users : qualityHits[u] > 0
  /\ qualityHits' = [u \in Users |-> 0]
  /\ UNCHANGED <<minute, bandwidthTracker, streams, emitted, arrivals,
                 audioStreamingHits, optimize, sweep, expiredIds>>
  /\ UNCHANGED <<genVars, cacheVars, extVars>>

InitNoStreams ==
  /\ minute = 0
  /\ bandwidthTracker = <<>>
  /\ emitted = <<>>
  /\ arrivals = 0
  /\ audioStreamingHits = [u \in Users |-> 0]
  /\ qualityHits = [u \in Users |-> 0]

-----------------------------------------------------------------------------
(* Maintenance: POST /optimize/:audioFileId and cleanupExpiredFiles *)

IdleOptimize ==
  [pc |-> "idle", id |-> <<>>, from |-> <<>>, to |-> <<>>, size |-> 0,
   status |-> 0, runs |-> 0]

OptimizeQualities == {"medium", "high"}

\* audioFile.filePath.replace('.mp3', `_${quality}.mp3`)
optimizedPath(filePath, quality) == Append(filePath, quality)

\* POST /optimize/:audioFileId arrives: prisma.audioFile.findUnique is issued
OptimizeRequest(id, quality) ==
  /\ optimize.pc \in {"idle", "done"}
  /\ optimize.runs < MaxOptimizeRuns
  /\ optimize' = [IdleOptimize EXCEPT !.pc = "lookup", !.id = id,
                                      !.to = quality,
                                      !.runs = optimize.runs + 1]
  /\ UNCHANGED <<minute, bandwidthTracker, streams, emitted, arrivals,
                 audioStreamingHits, qualityHits, sweep, expiredIds>>
  /\ UNCHANGED <<genVars, cacheVars, extVars>>

\* findUnique answered: 404 without a record, else optimizeAudioFile is
\* called with the record's path and the optimized path
OptimizeFound ==
  /\ optimize.pc = "lookup"
  /\ LET found == FindUnique(audioFiles, optimize.id) IN
       IF found = {}
         THEN optimize' = [optimize EXCEPT !.pc = "done", !.status = 404]
         ELSE LET f == CHOOSE x \in found : TRUE
              IN optimize' = [optimize EXCEPT
                                !.pc = "copy", !.from = f.filePath,
                                !.to = optimizedPath(f.filePath, optimize.to)]
  /\ UNCHANGED <<minute, bandwidthTracker, streams, emitted, arrivals,
                 audioStreamingHits, qualityHits, sweep, expiredIds>>
  /\ UNCHANGED <<genVars, cacheVars, extVars>>

\* optimizeAudioFile: the input is read and written to the output path, and
\* the size of the output is taken; a missing input throws (500)
OptimizeCopy ==
  /\ optimize.pc = "copy"
  /\ IF optimize.from \in DOMAIN disk
       THEN /\ disk' = WriteFile(disk, optimize.to, disk[optimize.from])
            /\ optimize' = [optimize EXCEPT
                              !.pc = "update",
                              !.size = Len(disk[optimize.from])]
       ELSE /\ disk' = disk
            /\ optimize' = [optimize EXCEPT !.pc = "done", !.status = 500]
  /\ UNCHANGED <<hour, costTracker, audioFiles, book, reqs, job, jobsRun>>
  /\ UNCHANGED <<minute, bandwidthTracker, streams, emitted, arrivals,
                 audioStreamingHits, qualityHits, sweep, expiredIds>>
  /\ UNCHANGED <<cacheVars, extVars>>

\* prisma.audioFile.update({where: {id}, data: {filePath, fileSizeBytes,
\* durationSeconds}}); it rejects when the store fails or the record is gone
OptimizeUpdate(ok) ==
  /\ optimize.pc = "update"
  /\ IF ok /\ FindUnique(audioFiles, optimize.id) # {}
       THEN /\ audioFiles' =
                 {IF f.id = optimize.id
                    THEN [f EXCEPT !.filePath = optimize.to,
                                   !.fileSizeBytes = optimize.size]
                    ELSE f : f \in audioFiles}
            /\ optimize' = [optimize EXCEPT !.pc = "done", !.status = 200]
       ELSE /\ audioFiles' = audioFiles
            /\ optimize' = [optimize EXCEPT !.pc = "done", !.status = 500]
  /\ UNCHANGED <<hour, costTracker, disk, book, reqs, job, jobsRun>>
  /\ UNCHANGED <<minute, bandwidthTracker, streams, emitted, arrivals,
                 audioStreamingHits, qualityHits, sweep, expiredIds>>
  /\ UNCHANGED <<cacheVars, extVars>>

IdleSweep == [pc |-> "idle", todo |-> <<>>, storeFault |-> FALSE]

\* the orders in which findMany may return the records of S
Orders(S) ==
  {q \in [1..Cardinality(S) -> S] :
     \A i, j \in 1..Cardinality(S) : i # j => q[i] # q[j]}

\* after the try/catch of one file: the next file, or the end of the loop
\* (the sweep of the temp directory that follows touches no record)
SweepAdvance(w) ==
  IF Len(w.todo) = 1 THEN [w EXCEPT !.pc = "done", !.todo = <<>>]
  ELSE [w EXCEPT !.pc = "unlink", !.todo = Tail(@)]

\* cleanupExpiredFiles starts: findMany({cacheExpiresAt: {lt: now}}); a
\* failing findMany ends the run in the outer catch
SweepStart(ok, order) ==
  /\ sweep.pc \in {"idle", "done"}
  /\ order \in Orders({f \in audioFiles : f.id \in expiredIds})
  /\ sweep' = IF ~ok THEN [IdleSweep EXCEPT !.pc = "done",
                                             !.storeFault = TRUE]
              ELSE IF order = <<>> THEN [IdleSweep EXCEPT !.pc = "done"]
              ELSE [IdleSweep EXCEPT !.pc = "unlink", !.todo = order]
  /\ UNCHANGED <<minute, bandwidthTracker, streams, emitted, arrivals,
                 audioStreamingHits, qualityHits, optimize, expiredIds>>
  /\ UNCHANGED <<genVars, cacheVars, extVars>>

\* fs.unlink(file.filePath) answered: on success the record delete is
\* issued; a throw (file missing, I/O error) goes to the catch of the file
SweepUnlink(ok) ==
  /\ sweep.pc = "unlink"
  /\ LET f == Head(sweep.todo) IN
       IF ok /\ f.filePath \in DOMAIN disk
         THEN /\ disk' = [p \in DOMAIN disk \ {f.filePath} |-> disk[p]]
              /\ sweep' = [sweep EXCEPT !.pc = "delete"]
         ELSE /\ disk' = disk
              /\ sweep' = SweepAdvance(sweep)
  /\ UNCHANGED <<hour, costTracker, audioFiles, book, reqs, job, jobsRun>>
  /\ UNCHANGED <<minute, bandwidthTracker, streams, emitted, arrivals,
                 audioStreamingHits, qualityHits, optimize, expiredIds>>
  /\ UNCHANGED <<cacheVars, extVars>>

\* prisma.audioFile.delete({where: {id}}) answered
SweepDelete(ok) ==
  /\ sweep.pc = "delete"
  /\ LET f == Head(sweep.todo) IN
       IF ok /\ FindUnique(audioFiles, f.id) # {}
         THEN /\ audioFiles' = {x \in audioFiles : x.id # f.id}
              /\ sweep' = SweepAdvance(sweep)
         ELSE /\ audioFiles' = audioFiles
              /\ sweep' = [SweepAdvance(sweep) EXCEPT !.storeFault = TRUE]
  /\ UNCHANGED <<hour, costTracker, disk, book, reqs, job, jobsRun>>
  /\ UNCHANGED <<minute, bandwidthTracker, streams, emitted, arrivals,
                 audioStreamingHits, qualityHits, optimize, expiredIds>>
  /\ UNCHANGED <<cacheVars, extVars>>

-----------------------------------------------------------------------------
(* Segmenter (EPubService.preprocessForAudio) and sync mapping builder    *)
(* (AudioCacheService.generateAudioSegments). Text is a sequence of       *)
(* one-character strings.                                                 *)

\* the abbreviations object, in insertion order
abbreviations ==
  <<[abbrev |-> <<"M", "r", ".">>,
      full |-> <<"M", "i", "s", "t", "e", "r">>],
     [abbrev |-> <<"M", "r", "s", ".">>,
      full |-> <<"M", "i", "s", "s", "u", "s">>],
     [abbrev |-> <<"M", "s", ".">>,
      full |-> <<"M", "i", "s", "s">>],
     [abbrev |-> <<"D", "r", ".">>,
      full |-> <<"D", "o", "c", "t", "o", "r">>],
     [abbrev |-> <<"P", "r", "o", "f", ".">>,
      full |-> <<"P", "r", "o", "f", "e", "s", "s", "o", "r">>],
     [abbrev |-> <<"S", "t", ".">>,
      full |-> <<"S", "t", "r", "e", "e", "t">>],
     [abbrev |-> <<"A", "v", "e", ".">>,
      full |-> <<"A", "v", "e", "n", "u", "e">>],
     [abbrev |-> <<"B", "l", "v", "d", ".">>,
      full |-> <<"B", "o", "u", "l", "e", "v", "a", "r", "d">>],
     [abbrev |-> <<"e", "t", "c", ".">>,
      full |-> <<"e", "t", " ", "c", "e", "t", "e", "r", "a">>],
     [abbrev |-> <<"v", "s", ".">>,
      full |-> <<"v", "e", "r", "s", "u", "s">>],
     [abbrev |-> <<"i", ".", "e", ".">>,
      full |-> <<"t", "h", "a", "t", " ", "i", "s">>],
     [abbrev |-> <<"e", ".", "g", ".">>,
      full |-> <<"f", "o", "r", " ", "e", "x", "a", "m", "p", "l", "e">>]>>

\* \w of a regular expression
IsWordChar(c) ==
  \/ c \in {"a", "b", "c", "d", "e", "f", "g", "h", "i", "j", "k", "l", "m", "n",
     "o", "p", "q", "r", "s", "t", "u", "v", "w", "x", "y", "z", "A",
     "B", "C", "D", "E", "F", "G", "H", "I", "J", "K", "L", "M", "N",
     "O", "P", "Q", "R", "S", "T", "U", "V", "W", "X", "Y", "Z"}
  \/ IsDigit(c)
  \/ c = "_"

\* new RegExp(`\\b${abbrev.replace('.', '\\.')}`, 'g') matches s at index i:
\* replace() with a string pattern escapes the first "." only, every later
\* "." of the abbreviation stays the wildcard of the regular expression
AbbrevMatchesAt(s, i, abbrev) ==
  /\ i + Len(abbrev) - 1 <= Len(s)
  /\ IsWordChar(s[i]) # (i > 1 /\ IsWordChar(s[i - 1]))
  /\ \A k \in 1..Len(abbrev) :
       IF abbrev[k] = "." /\ \E j \in 1..(k - 1) : abbrev[j] = "."
         THEN s[i + k - 1] \notin {"\n", "\r"}
         ELSE s[i + k - 1] = abbrev[k]

RECURSIVE ReplaceAll(_, _, _, _)
\* processedText.replace(regex, full) from index i on: the matches are
\* taken left to right and do not overlap
ReplaceAll(s, i, abbrev, full) ==
  IF i > Len(s) THEN <<>>
  ELSE IF AbbrevMatchesAt(s, i, abbrev)
    THEN full \o ReplaceAll(s, i + Len(abbrev), abbrev, full)
  ELSE <<s[i]>> \o ReplaceAll(s, i + 1, abbrev, full)

RECURSIVE Normalized(_, _)
\* the loop over Object.entries(abbreviations), from entry k on
Normalized(s, k) ==
  IF k > Len(abbreviations) THEN s
  ELSE Normalized(ReplaceAll(s, 1, abbreviations[k].abbrev,
                             abbreviations[k].full), k + 1)

RECURSIVE SplitSentences(_)
\* String.prototype.split(/[.!?]+/)
SplitSentences(s) ==
  LET hits == {i \in 1..Len(s) : s[i] \in {".", "!", "?"}}
  IN IF hits = {} THEN <<s>>
     ELSE LET i == CHOOSE h \in hits : \A k \in hits : h <= k
              after == {j \in (i + 1)..Len(s) : s[j] \notin {".", "!", "?"}}
              j == IF after = {} THEN Len(s) + 1
                   ELSE CHOOSE h \in after : \A k \in after : h <= k
          IN <<SubSeq(s, 1, i - 1)>> \o SplitSentences(SubSeq(s, j, Len(s)))

\* String.prototype.trim
trim(s) ==
  LET keep == {i \in 1..Len(s) : s[i] \notin {" ", "\t", "\n", "\r"}}
  IN IF keep = {} THEN <<>>
     ELSE SubSeq(s, CHOOSE a \in keep : \A k \in keep : a <= k,
                    CHOOSE b \in keep : \A k \in keep : b >= k)

\* .filter(s => s.trim().length > 0)
NonBlank(sentences) == SelectSeq(sentences, LAMBDA x : Len(trim(x)) > 0)

NextPositionNoDelimiter(currentPosition, trimmed) ==
  currentPosition + Len(trimmed)

\* currentPosition += trimmed.length + 1
NextPosition(currentPosition, trimmed) == currentPosition + Len(trimmed) + 1

RECURSIVE SegmentsFrom(_, _)
\* the loop over the sentences that builds the segments
SegmentsFrom(sentences, currentPosition) ==
  IF sentences = <<>> THEN <<>>
  ELSE LET trimmed == trim(Head(sentences)) IN
       IF Len(trimmed) > 0
         THEN <<[text |-> trimmed, start |-> currentPosition,
                 end |-> currentPosition + Len(trimmed)]>>
              \o SegmentsFrom(Tail(sentences),
                              NextPosition(currentPosition, trimmed))
         ELSE SegmentsFrom(Tail(sentences), currentPosition)

preprocessForAudioSharedPosition(content) ==
  LET processedText == Normalized(content, 1)
      last == IF segmented = <<>> THEN <<>>
              ELSE segmented[Len(segmented)].segments
      from == IF last = <<>> THEN 0 ELSE last[Len(last)].end + 1
  IN [processedText |-> processedText,
      segments |-> SegmentsFrom(NonBlank(SplitSentences(processedText)),
                                from)]

preprocessForAudio(content) ==
  LET processedText == Normalized(content, 1) IN
  [processedText |-> processedText,
   segments |-> SegmentsFrom(NonBlank(SplitSentences(processedText)), 0)]

\* estimateTextDuration, in milliseconds: text.length / 5 / 150 * 60 seconds
estimateTextDuration(text) == (Len(text) * 60 * 1000) \div (5 * 150)

RECURSIVE TimedFrom(_, _)
\* the loop over the sentences that builds the timing entries
TimedFrom(sentences, currentTime) ==
  IF sentences = <<>> THEN <<>>
  ELSE LET duration == estimateTextDuration(trim(Head(sentences))) IN
       <<[start |-> currentTime, end |-> currentTime + duration,
          text |-> trim(Head(sentences))]>>
       \o TimedFrom(Tail(sentences), currentTime + duration)

generateAudioSegments(chapterText) ==
  TimedFrom(NonBlank(SplitSentences(chapterText)), 0)

NoSync == [cached |-> FALSE, entry |-> <<>>, status |-> 0, segments |-> <<>>]

\* one call of preprocessForAudio with the chapter's content
Preprocess ==
  /\ Len(segmented) < MaxSegmenterCalls
  /\ segmented' = Append(segmented, preprocessForAudio(chapterContent))
  /\ UNCHANGED <<chapterContent, syncServed, ttsCalls, cleanupService>>
  /\ UNCHANGED <<genVars, cacheVars, auxVars>>

\* GET /segments/:audioFileId for an audio file with a chapter: the cached
\* segments_<id> entry is served, else the segments are generated from
\* chapter.content, cached and served
SyncSegments ==
  /\ syncServed' =
       IF syncServed.cached
         THEN [syncServed EXCEPT !.status = 200, !.segments = syncServed.entry]
         ELSE [cached |-> TRUE, entry |-> generateAudioSegments(chapterContent),
               status |-> 200,
               segments |-> generateAudioSegments(chapterContent)]
  /\ UNCHANGED <<chapterContent, segmented, ttsCalls, cleanupService>>
  /\ UNCHANGED <<genVars, cacheVars, auxVars>>

\* the segments_<id> entry of audioMetadataCache reaches its TTL
MetadataExpire ==
  /\ syncServed.cached
  /\ syncServed' = [syncServed EXCEPT !.cached = FALSE, !.entry = <<>>]
  /\ UNCHANGED <<chapterContent, segmented, ttsCalls, cleanupService>>
  /\ UNCHANGED <<genVars, cacheVars, auxVars>>

InitNoText ==
  /\ chapterContent = <<>>
  /\ segmented = <<>>
  /\ syncServed = NoSync

-----------------------------------------------------------------------------
(* Calls of the provider orchestrator (TTSService)                         *)

NoCall ==
  [op |-> "none", len |-> 0, voice |-> "none", requested |-> "none",
   invoked |-> <<>>, ok |-> FALSE, cost |-> 0]

\* lengths of the texts passed to the orchestrator
TtsLengths == {0, 12, 13, 999, 1000, 4999, 5000, 5001}

\* TTSService.generateSpeech with request.provider = provider ("none" when
\* absent); done tells whether the provider that was invoked answered
GenerateSpeech(len, provider, done) ==
  /\ Len(ttsCalls) < MaxTtsCalls
  /\ LET p == generateSpeechProvider(len, provider)
         supported == p \in {"google", "azure", "amazon"}
     IN ttsCalls' = Append(ttsCalls,
          [NoCall EXCEPT !.op = "generateSpeech", !.len = len,
                         !.requested = provider,
                         !.invoked = IF supported THEN <<p>> ELSE <<>>,
                         !.ok = supported /\ done,
                         !.cost = IF supported /\ done
                                    THEN generateSpeechCost(len, provider)
                                    ELSE 0])
  /\ UNCHANGED <<chapterContent, segmented, syncServed, cleanupService>>
  /\ UNCHANGED <<genVars, cacheVars, auxVars>>

\* TTSService.estimateCost(text, voice)
EstimateCost(len, voice) ==
  /\ Len(ttsCalls) < MaxTtsCalls
  /\ ttsCalls' = Append(ttsCalls,
       [NoCall EXCEPT !.op = "estimateCost", !.len = len, !.voice = voice,
                      !.ok = estimateCost(len, voice).ok,
                      !.cost = estimateCost(len, voice).cost])
  /\ UNCHANGED <<chapterContent, segmented, syncServed, cleanupService>>
  /\ UNCHANGED <<genVars, cacheVars, auxVars>>

-----------------------------------------------------------------------------
(* CleanupService: start(), stop() and the timers they install             *)

StoppedService ==
  [isRunning |-> FALSE, cleanupInterval |-> 0, timers |-> {}, nextId |-> 1,
   calls |-> 0, runs |-> 0, ranWhileStopped |-> FALSE]

\* cleanupService.start()
CleanupStart ==
  /\ cleanupService.calls < MaxCleanupCalls
  /\ cleanupService' =
       IF cleanupService.isRunning
         THEN [cleanupService EXCEPT !.calls = @ + 1]
         ELSE [cleanupService EXCEPT
                 !.calls = @ + 1,
                 !.isRunning = TRUE,
                 !.cleanupInterval = cleanupService.nextId,
                 !.timers = @ \cup
                    {[id |-> cleanupService.nextId, kind |-> "interval"],
                     [id |-> cleanupService.nextId + 1, kind |-> "timeout"]},
                 !.nextId = @ + 2]
  /\ UNCHANGED <<chapterContent, segmented, syncServed, ttsCalls>>
  /\ UNCHANGED <<genVars, cacheVars, auxVars>>

\* cleanupService.stop()
CleanupStop ==
  /\ cleanupService.calls < MaxCleanupCalls
  /\ cleanupService' =
       [cleanupService EXCEPT
          !.calls = @ + 1,
          !.timers = {t \in @ : t.id # cleanupService.cleanupInterval},
          !.cleanupInterval = 0,
          !.isRunning = FALSE]
  /\ UNCHANGED <<chapterContent, segmented, syncServed, ttsCalls>>
  /\ UNCHANGED <<genVars, cacheVars, auxVars>>

\* a timer installed by start() fires and calls runCleanup, which runs
\* cleanupExpiredFiles: over a store without expired records that run ends
\* after its findMany; the 5-minute timeout fires once, the interval stays
CleanupTimerFire(t) ==
  /\ t \in cleanupService.timers
  /\ cleanupService.runs < MaxCleanupRuns
  /\ sweep.pc \in {"idle", "done"}
  /\ {f \in audioFiles : f.id \in expiredIds} = {}
  /\ sweep' = [IdleSweep EXCEPT !.pc = "done"]
  /\ cleanupService' =
       [cleanupService EXCEPT
          !.runs = @ + 1,
          !.timers = IF t.kind = "timeout" THEN @ \ {t} ELSE @,
          !.ranWhileStopped = @ \/ ~cleanupService.isRunning]
  /\ UNCHANGED <<chapterContent, segmented, syncServed, ttsCalls>>
  /\ UNCHANGED <<minute, bandwidthTracker, streams, emitted, arrivals,
                 audioStreamingHits, qualityHits, optimize, expiredIds>>
  /\ UNCHANGED <<genVars, cacheVars>>

InitExt ==
  /\ InitNoText
  /\ ttsCalls = <<>>
  /\ cleanupService = StoppedService

InitNoMaintenance ==
  /\ optimize = IdleOptimize
  /\ sweep = IdleSweep
  /\ expiredIds = {}

InitAux ==
  /\ InitNoStreams
  /\ streams = <<>>
  /\ InitNoMaintenance

-----------------------------------------------------------------------------
(* Specifications of the generation routes *)

InitStore ==
  /\ hour = 0
  /\ costTracker = <<>>
  /\ audioFiles = {}
  /\ disk = <<>>
  /\ book = [hasAudio |-> FALSE, audioGenerationStatus |-> "PENDING",
             audioCostUsd |-> 0]
  /\ audioFileCache = <<>>
  /\ fillerKeys = 0
  /\ chapterAudio = [c \in Chapters |-> <<>>]
  /\ gets = [g \in 1..MaxGets |-> IdleGet]
  /\ preload = [pc |-> "idle", todo |-> <<>>]
  /\ resp = NoStreamResp
  /\ InitAux

\* concurrent generate-chapter-audio requests
InitChapter ==
  /\ InitStore
  /\ InitExt
  /\ job = IdleJob
  /\ jobsRun = 0
  /\ reqs = [r \in 1..MaxReqs |-> IdleReq]

NextChapter ==
  \/ \E r \in DOMAIN reqs, u \in Users, ch \in Chapters, v \in ReqVoices,
        p \in ReqProviders : ChapterRequest(r, u, ch, v, p)
  \/ \E r \in DOMAIN reqs : ChapterFound(r)
  \/ \E r \in DOMAIN reqs : ChapterExisting(r)
  \/ \E r \in DOMAIN reqs, ok \in BOOLEAN : ChapterSynth(r, ok)
  \/ \E r \in DOMAIN reqs : ChapterCreate(r)
  \/ \E r \in DOMAIN reqs : ChapterUpdateBook(r)
  \/ Tick

SpecChapter == InitChapter /\ [][NextChapter]_vars

\* the job that the upload route has scheduled with setImmediate
ScheduledJob(v, p) ==
  [IdleJob EXCEPT !.kind = "background", !.pc = "scheduled", !.voice = v,
                  !.provider = p]

\* the book has just been uploaded, with or without background generation;
\* generate-book-audio jobs and generate-chapter-audio requests follow
Init ==
  /\ InitStore
  /\ InitExt
  /\ \/ job = IdleJob /\ jobsRun = 0
     \/ /\ job \in {ScheduledJob(v, p) :
                      v \in {w \in ReqVoices : UploadSchedules(w)},
                      p \in ReqProviders}
        /\ jobsRun = 1
  /\ reqs = [r \in 1..MaxJobReqs |-> IdleReq]

Next ==
  \/ \E r \in DOMAIN reqs, u \in Users, ch \in Chapters, v \in ReqVoices,
        p \in ReqProviders : ChapterRequest(r, u, ch, v, p)
  \/ \E r \in DOMAIN reqs : ChapterFound(r)
  \/ \E r \in DOMAIN reqs : ChapterExisting(r)
  \/ \E r \in DOMAIN reqs, ok \in BOOLEAN : ChapterSynth(r, ok)
  \/ \E r \in DOMAIN reqs : ChapterCreate(r)
  \/ \E r \in DOMAIN reqs : ChapterUpdateBook(r)
  \/ \E u \in Users, v \in ReqVoices, p \in ReqProviders : JobRequest(u, v, p)
  \/ JobFound
  \/ JobProcessing
  \/ \E c \in Chapters : MemberCheck(c)
  \/ \E c \in Chapters, ok \in BOOLEAN : MemberSynth(c, ok)
  \/ \E c \in Chapters : MemberCreate(c)
  \/ BatchAwait
  \/ DelayElapsed
  \/ JobFinal
  \/ BackgroundRun
  \/ BackgroundFinal
  \/ JobFault
  \/ \E ok \in BOOLEAN : JobCatch(ok)

Spec == Init /\ [][Next]_vars

-----------------------------------------------------------------------------
(* Specification of the audio cache and the stream route *)

\* the record and the file that generate-chapter-audio request r leaves for
\* chapter ch with voice Joanna and no provider named
StoredFile(r, ch) ==
  NewAudioFile(<<"req", r>>, ch, "Joanna",
               TTSResult(ChapterLen[ch], ch, "Joanna", "none", <<"req", r>>))

\* the store after chapters 1 and 2 were generated; the cache is empty or
\* already holds entries of other audio files, and chapters may reference
\* the audio files
InitCache ==
  /\ hour = 0
  /\ audioFiles = {StoredFile(1, 1), StoredFile(2, 2)}
  /\ disk = [p \in {StoredFile(1, 1).filePath, StoredFile(2, 2).filePath} |->
               IF p = StoredFile(1, 1).filePath
                 THEN SynthBytes(1) ELSE SynthBytes(2)]
  /\ book = [hasAudio |-> TRUE, audioGenerationStatus |-> "COMPLETED",
             audioCostUsd |-> StoredFile(1, 1).generationCostUsd
                                + StoredFile(2, 2).generationCostUsd]
  /\ costTracker = [k \in {<<"u1", 0>>} |->
                      StoredFile(1, 1).generationCostUsd
                        + StoredFile(2, 2).generationCostUsd]
  /\ reqs = <<>>
  /\ job = IdleJob
  /\ jobsRun = 0
  /\ audioFileCache = <<>>
  /\ fillerKeys \in {0, maxKeys - 1}
  /\ chapterAudio \in {[c \in Chapters |-> <<>>],
                       [c \in Chapters |-> IF c <= 2 THEN <<"req", c>>
                                           ELSE <<>>]}
  /\ gets = [g \in 1..MaxGets |-> IdleGet]
  /\ preload = [pc |-> "idle", todo |-> <<>>]
  /\ resp = NoStreamResp
  /\ InitAux
  /\ InitExt

NextCache ==
  \/ \E id \in RequestIds, range \in RangeHeaders : StreamHit(id, range)
  \/ \E g \in DOMAIN gets, id \in RequestIds, kind \in {"stream", "warmup"} :
       GetMiss(g, id, kind)
  \/ \E g \in DOMAIN gets, ok \in BOOLEAN : GetLookup(g, ok)
  \/ \E g \in DOMAIN gets, range \in RangeHeaders : GetRead(g, range)
  \/ PreloadStart
  \/ PreloadRead
  \/ ClearCache
  \/ \E id \in RequestIds : Expire(id)

SpecCache == InitCache /\ [][NextCache]_vars

-----------------------------------------------------------------------------
(* Specification of concurrent getCachedAudioFile calls: two calls in     *)
(* flight, full-content streams only, and a record whose file may be gone *)

InitGet ==
  /\ hour = 0
  /\ audioFiles = {StoredFile(1, 1), StoredFile(2, 2)}
  /\ disk \in {[p \in {StoredFile(1, 1).filePath, StoredFile(2, 2).filePath}
                  |-> IF p = StoredFile(1, 1).filePath
                        THEN SynthBytes(1) ELSE SynthBytes(2)],
                [p \in {StoredFile(1, 1).filePath} |-> SynthBytes(1)]}
  /\ book = [hasAudio |-> TRUE, audioGenerationStatus |-> "COMPLETED",
             audioCostUsd |-> StoredFile(1, 1).generationCostUsd
                                + StoredFile(2, 2).generationCostUsd]
  /\ costTracker = [k \in {<<"u1", 0>>} |->
                      StoredFile(1, 1).generationCostUsd
                        + StoredFile(2, 2).generationCostUsd]
  /\ reqs = <<>>
  /\ job = IdleJob
  /\ jobsRun = 0
  /\ audioFileCache = <<>>
  /\ fillerKeys \in {0, maxKeys - 2, maxKeys - 1}
  /\ chapterAudio \in {[c \in Chapters |-> <<>>],
                       [c \in Chapters |-> IF c <= 2 THEN <<"req", c>>
                                           ELSE <<>>]}
  /\ gets = [g \in 1..MaxGetters |-> IdleGet]
  /\ preload = [pc |-> "idle", todo |-> <<>>]
  /\ resp = NoStreamResp
  /\ InitAux
  /\ InitExt

NextGet ==
  \/ \E id \in RequestIds : StreamHit(id, NoRange)
  \/ \E g \in DOMAIN gets, id \in RequestIds, kind \in {"stream", "warmup"} :
       GetMiss(g, id, kind)
  \/ \E g \in DOMAIN gets, ok \in BOOLEAN : GetLookup(g, ok)
  \/ \E g \in DOMAIN gets : GetRead(g, NoRange)
  \/ PreloadStart
  \/ PreloadRead
  \/ ClearCache
  \/ \E id \in RequestIds : Expire(id)

SpecGet == InitGet /\ [][NextGet]_vars

-----------------------------------------------------------------------------
(* Specification of the cost ledger over several hours: requests of one   *)
(* requester for the long chapters, the clock, and the expiry of buckets  *)

LedgerKeys == {<<u, h>> : u \in Users, h \in 0..MaxHour}

InitLedger ==
  /\ InitStore
  /\ InitExt
  /\ job = IdleJob
  /\ jobsRun = 0
  /\ reqs = [r \in 1..MaxLedgerReqs |-> IdleReq]

NextLedger ==
  \/ \E r \in DOMAIN reqs, u \in Users, ch \in {2, 3} :
       ChapterRequest(r, u, ch, "Joanna", "google")
  \/ \E r \in DOMAIN reqs : ChapterFound(r)
  \/ \E r \in DOMAIN reqs : ChapterExisting(r)
  \/ \E r \in DOMAIN reqs, ok \in BOOLEAN : ChapterSynth(r, ok)
  \/ \E r \in DOMAIN reqs : ChapterCreate(r)
  \/ \E r \in DOMAIN reqs : ChapterUpdateBook(r)
  \/ Tick
  \/ \E k \in LedgerKeys : LedgerExpire(k)

\* NodeCache deletes expired keys on its check period
SpecLedger ==
  /\ InitLedger /\ [][NextLedger]_vars
  /\ \A k \in LedgerKeys : WF_vars(LedgerExpire(k))

-----------------------------------------------------------------------------
(* Specification of the bandwidth ledger: stream requests of one requester *)
(* that overlap, with large bodies                                         *)

\* body sizes of the responses: under and over the quota of a minute
StreamBodySizes == {20000000, maxBytesPerMinute(maxMbpsPerUser) + 1}

InitBandwidth ==
  /\ hour = 0
  /\ costTracker = <<>>
  /\ audioFiles = {}
  /\ disk = <<>>
  /\ book = [hasAudio |-> FALSE, audioGenerationStatus |-> "PENDING",
             audioCostUsd |-> 0]
  /\ reqs = <<>>
  /\ job = IdleJob
  /\ jobsRun = 0
  /\ audioFileCache = <<>>
  /\ fillerKeys = 0
  /\ chapterAudio = [c \in Chapters |-> <<>>]
  /\ gets = [g \in 1..MaxGets |-> IdleGet]
  /\ preload = [pc |-> "idle", todo |-> <<>>]
  /\ resp = NoStreamResp
  /\ InitNoStreams
  /\ streams = [i \in 1..MaxOpenStreams |-> IdleStream]
  /\ InitNoMaintenance
  /\ InitExt

NextBandwidth ==
  \/ \E i \in DOMAIN streams, u \in Users :
       StreamArrive(i, u, "none", "none", MaxStreams)
  \/ \E i \in DOMAIN streams, n \in StreamBodySizes : StreamEnd(i, n)
  \/ MinuteTick
  \/ \E u \in Users, m \in 0..MaxMinute : BandwidthExpire(<<u, m>>)

SpecBandwidth == InitBandwidth /\ [][NextBandwidth]_vars

-----------------------------------------------------------------------------
(* Specification of the request-rate limiters of the stream route: one     *)
(* request at a time, with and without If-None-Match, small bodies         *)

InitLimiter ==
  /\ hour = 0
  /\ costTracker = <<>>
  /\ audioFiles = {}
  /\ disk = <<>>
  /\ book = [hasAudio |-> FALSE, audioGenerationStatus |-> "PENDING",
             audioCostUsd |-> 0]
  /\ reqs = <<>>
  /\ job = IdleJob
  /\ jobsRun = 0
  /\ audioFileCache = <<>>
  /\ fillerKeys = 0
  /\ chapterAudio = [c \in Chapters |-> <<>>]
  /\ gets = [g \in 1..MaxGets |-> IdleGet]
  /\ preload = [pc |-> "idle", todo |-> <<>>]
  /\ resp = NoStreamResp
  /\ InitNoStreams
  /\ streams = <<IdleStream>>
  /\ InitNoMaintenance
  /\ InitExt

NextLimiter ==
  \/ \E i \in DOMAIN streams, u \in Users, inm \in IfNoneMatchValues,
        q \in Qualities : StreamArrive(i, u, inm, q, MaxLimiterReqs)
  \/ \E i \in DOMAIN streams : StreamEnd(i, Len(SynthBytes(1)))
  \/ StreamingWindowReset
  \/ QualityWindowReset

SpecLimiter == InitLimiter /\ [][NextLimiter]_vars

-----------------------------------------------------------------------------
(* Specification of maintenance: the optimize route and the sweep of      *)
(* expired records over a store of two audio files                        *)

InitMaintenance ==
  /\ hour = 0
  /\ audioFiles = {StoredFile(1, 1), StoredFile(2, 2)}
  /\ disk \in {[p \in {StoredFile(1, 1).filePath, StoredFile(2, 2).filePath}
                  |-> IF p = StoredFile(1, 1).filePath
                        THEN SynthBytes(1) ELSE SynthBytes(2)],
                [p \in {StoredFile(1, 1).filePath} |-> SynthBytes(1)]}
  /\ book = [hasAudio |-> TRUE, audioGenerationStatus |-> "COMPLETED",
             audioCostUsd |-> StoredFile(1, 1).generationCostUsd
                                + StoredFile(2, 2).generationCostUsd]
  /\ costTracker = [k \in {<<"u1", 0>>} |->
                      StoredFile(1, 1).generationCostUsd
                        + StoredFile(2, 2).generationCostUsd]
  /\ reqs = <<>>
  /\ job = IdleJob
  /\ jobsRun = 0
  /\ audioFileCache = <<>>
  /\ fillerKeys = 0
  /\ chapterAudio = [c \in Chapters |-> <<>>]
  /\ gets = [g \in 1..MaxGets |-> IdleGet]
  /\ preload = [pc |-> "idle", todo |-> <<>>]
  /\ resp = NoStreamResp
  /\ InitNoStreams
  /\ streams = <<>>
  /\ optimize = IdleOptimize
  /\ sweep = IdleSweep
  /\ expiredIds \in SUBSET {StoredFile(1, 1).id, StoredFile(2, 2).id}
  /\ InitExt

NextMaintenance ==
  \/ \E id \in RequestIds, quality \in OptimizeQualities :
       OptimizeRequest(id, quality)
  \/ OptimizeFound
  \/ OptimizeCopy
  \/ \E ok \in BOOLEAN : OptimizeUpdate(ok)
  \/ \E ok \in BOOLEAN,
        order \in Orders({f \in audioFiles : f.id \in expiredIds}) :
       SweepStart(ok, order)
  \/ \E ok \in BOOLEAN : SweepUnlink(ok)
  \/ \E ok \in BOOLEAN : SweepDelete(ok)

SpecMaintenance == InitMaintenance /\ [][NextMaintenance]_vars

-----------------------------------------------------------------------------
(* Specifications of the text services: every variable of the routes is    *)
(* idle, one chapter text is segmented and served as a sync mapping        *)

InitIdle ==
  /\ InitStore
  /\ reqs = <<>>
  /\ job = IdleJob
  /\ jobsRun = 0

\* chapter texts: up to MaxTextLen characters that exercise the
\* abbreviations, the sentence terminals and blanks
Texts ==
  UNION {[1..n -> {"M", "r", "e", "g", ".", "!", " "}] : n \in 0..MaxTextLen}

InitSegmenter ==
  /\ InitIdle
  /\ chapterContent \in Texts
  /\ segmented = <<>>
  /\ syncServed = NoSync
  /\ ttsCalls = <<>>
  /\ cleanupService = StoppedService

NextSegmenter ==
  \/ Preprocess
  \/ SyncSegments
  \/ MetadataExpire

SpecSegmenter == InitSegmenter /\ [][NextSegmenter]_vars

-----------------------------------------------------------------------------
(* Specification of the orchestrator: calls of generateSpeech and          *)
(* estimateCost with texts of the lengths around the selection thresholds  *)

\* request.provider: absent, the three providers, and an unsupported name
TtsProviders == {"none", "google", "azure", "amazon", "polly"}

InitTts ==
  /\ InitIdle
  /\ InitNoText
  /\ ttsCalls = <<>>
  /\ cleanupService = StoppedService

NextTts ==
  \/ \E len \in TtsLengths, provider \in TtsProviders, done \in BOOLEAN :
       GenerateSpeech(len, provider, done)
  \/ \E len \in TtsLengths, voice \in ReqVoices : EstimateCost(len, voice)

SpecTts == InitTts /\ [][NextTts]_vars

-----------------------------------------------------------------------------
(* Specification of the cleanup service: start(), stop() and timer fires   *)
(* in any order over an empty store                                        *)

InitCleanup ==
  /\ InitIdle
  /\ InitNoText
  /\ ttsCalls = <<>>
  /\ cleanupService = StoppedService

NextCleanup ==
  \/ CleanupStart
  \/ CleanupStop
  \/ \E t \in cleanupService.timers : CleanupTimerFire(t)

SpecCleanup == InitCleanup /\ [][NextCleanup]_vars

-----------------------------------------------------------------------------
(* Properties of the generation routes *)

\* C1: the cost ledger value of every (requester, hour) bucket stays at or
\* below the $0.50 per-hour ceiling of generate-chapter-audio, also with
\* several requests of one requester in flight.
C1_LedgerWithinCeiling ==
  \A k \in DOMAIN costTracker : costTracker[k] <= 500000

\* C2, as claimed: a generate-chapter-audio request whose projected cost
\* exceeds the $0.10 per-chapter cap never calls the provider, creates no
\* record, leaves book and ledger alone, and is answered 400.
C2_OverCapRejected400 ==
  \A r \in DOMAIN reqs :
    LET q == reqs[r] IN
    (/\ q.pc # "idle"
     /\ q.voice \in DOMAIN VoiceTable
     /\ estimateCost(ChapterLen[q.chapterId], q.voice).cost > 100000)
    => /\ q.eff = NoEff
       /\ q.pc \notin {"synth", "create", "updateBook"}
       /\ q.pc = "done" => q.resp.status = 400

\* C2, amended: such a request never calls the provider, creates no record
\* and leaves book and ledger alone; it is answered 400, or 429 by the
\* hourly cost middleware, unless an audio file already exists for its
\* (chapter, voice) pair, which is then returned with 200.
C2_OverCapNoEffect ==
  \A r \in DOMAIN reqs :
    LET q == reqs[r] IN
    (/\ q.pc # "idle"
     /\ q.voice \in DOMAIN VoiceTable
     /\ estimateCost(ChapterLen[q.chapterId], q.voice).cost > 100000)
    => /\ q.eff = NoEff
       /\ q.pc \notin {"synth", "create", "updateBook"}
       /\ q.pc = "done" =>
            \/ q.resp.status = 400
            \/ q.resp.status = 429
            \/ /\ q.resp.status = 200
               /\ q.resp.kind = "exists"
               /\ \E f \in audioFiles : /\ f.id = q.resp.audioFile
                                        /\ f.chapterId = q.chapterId
                                        /\ f.voiceUsed = q.voice

\* an over-cap request has been answered 400
C2_Witness ==
  \E r \in DOMAIN reqs :
    /\ reqs[r].pc = "done" /\ reqs[r].resp.status = 400
    /\ estimateCost(ChapterLen[reqs[r].chapterId], reqs[r].voice).cost > 100000

\* C3: when an audio file exists for the (chapter, voice) pair at the time
\* the request (or the batch member) looks it up, the request returns that
\* file with 200 (the member returns 'exists' with cost 0), having made no
\* provider call, and the step creates no record and leaves the ledger and
\* the book's cost unchanged.
C3_Idempotent ==
  [][/\ \A r \in DOMAIN reqs :
          (/\ reqs[r].pc = "findExisting"
           /\ reqs'[r].pc # "findExisting"
           /\ \E f \in audioFiles : /\ f.chapterId = reqs[r].chapterId
                                    /\ f.voiceUsed = reqs[r].voice)
          => /\ reqs'[r].pc = "done"
             /\ reqs'[r].resp.status = 200
             /\ \E f \in audioFiles : /\ f.id = reqs'[r].resp.audioFile
                                      /\ f.chapterId = reqs[r].chapterId
                                      /\ f.voiceUsed = reqs[r].voice
             /\ reqs'[r].eff = NoEff
             /\ audioFiles' = audioFiles
             /\ costTracker' = costTracker
             /\ book' = book
     /\ \A c \in Chapters :
          (/\ job.mpc[c] = "check"
           /\ job'.mpc[c] # "check"
           /\ \E f \in audioFiles : f.chapterId = c /\ f.voiceUsed = job.voice)
          => /\ job'.mpc[c] = "done"
             /\ job'.results[c].status = "exists"
             /\ job'.results[c].cost = 0
             /\ \E f \in audioFiles : /\ f.id = job'.results[c].audioFile
                                      /\ f.chapterId = c
                                      /\ f.voiceUsed = job.voice
             /\ job'.mcalls[c] = 0
             /\ audioFiles' = audioFiles
             /\ costTracker' = costTracker
             /\ book' = book]_vars

\* a request was answered with the existing audio file of its pair
C3_Witness ==
  \E r \in DOMAIN reqs :
    /\ reqs[r].resp.kind = "exists"
    /\ reqs[r].eff.calls = 0
    /\ \E f \in audioFiles : f.id = reqs[r].resp.audioFile

\* C4: a generate-book-audio job without pre-existing audio files in which
\* synthesis failed for k chapters still processes all N chapters, writes
\* COMPLETED after PROCESSING, and reports failed = k, successful = N - k,
\* with exactly the failed chapters as failure entries.
C4_BatchResilience ==
  (/\ job.kind = "route" /\ job.pc = "done" /\ job.resp.status = 200
   /\ \A c \in Chapters : job.results[c].status # "exists")
  => LET failedCh == {c \in Chapters :
                        job.mcalls[c] > 0 /\ job.mtts[c] = NoTTS}
     IN /\ job.writes = <<"PROCESSING", "COMPLETED">>
        /\ job.resp.chaptersProcessed = Len(ChapterLen)
        /\ job.resp.failed = Cardinality(failedCh)
        /\ job.resp.successful = Len(ChapterLen) - Cardinality(failedCh)
        /\ {c \in Chapters : job.results[c].status = "failed"} = failedCh

\* a job ended with one failed chapter and all others generated
C4_Witness ==
  /\ job.kind = "route" /\ job.pc = "done" /\ job.resp.status = 200
  /\ job.resp.failed = 1
  /\ job.resp.successful = Len(ChapterLen) - 1
  /\ Cardinality({c \in Chapters : job.mcalls[c] > 0 /\ job.mtts[c] = NoTTS}) = 1

\* C5: at most 3 provider calls of a job are in flight; a member is active
\* only while its batch is the current one, after every member of every
\* earlier batch has resolved and one delay per earlier batch has elapsed;
\* the delay occurs only when a further batch follows.
C5_BatchesOfThree ==
  LET active == {c \in Chapters : job.mpc[c] \in {"check", "synth", "create"}}
      batchNo(c) == (c - 1) \div 3
  IN /\ Cardinality({c \in Chapters : job.mpc[c] = "synth"}) <= 3
     /\ \A c \in active :
          /\ job.pc = "batch"
          /\ job.delays = batchNo(c)
          /\ \A d \in Chapters : batchNo(d) < batchNo(c) => job.mpc[d] = "done"
          /\ \A d \in Chapters : batchNo(d) > batchNo(c) => job.mpc[d] = "none"
     /\ job.pc = "delay" => \E c \in Chapters : job.mpc[c] = "none"
     /\ job.pc = "final" =>
          /\ \A c \in Chapters : job.mpc[c] = "done"
          /\ job.delays = (Len(ChapterLen) - 1) \div 3

\* the second batch has a provider call in flight after one delay
C5_Witness ==
  /\ job.pc = "batch" /\ job.delays = 1
  /\ job.mpc[4] = "synth"
  /\ \A c \in 1..3 : job.mpc[c] = "done"

\* C6: a generate-book-audio job writes PROCESSING first and then exactly
\* one of COMPLETED and FAILED; no provider call precedes PROCESSING; FAILED
\* is written only after a fault of the store escaped to the top-level
\* handler, and never by a job that did not write PROCESSING.
C6_StatusOrder ==
  job.kind = "route" =>
    /\ job.writes \in {<<>>, <<"PROCESSING">>, <<"PROCESSING", "COMPLETED">>,
                       <<"PROCESSING", "FAILED">>}
    /\ (\E c \in Chapters : job.mcalls[c] > 0) => job.writes # <<>>
    /\ (\E i \in 1..Len(job.writes) : job.writes[i] = "FAILED") => job.fault
    /\ (job.pc = "done" /\ job.resp.status = 200) => Len(job.writes) = 2

-----------------------------------------------------------------------------
(* Properties of the stream route and the audio cache *)

\* C7: a served audio file of size S answers 'Range: bytes=a-b' with
\* 0 <= a <= b < S by 206, the b-a+1 bytes payload[a..b] and
\* 'Content-Range: bytes a-b/S'; 'Range: bytes=a-' with a < S by
\* payload[a..S-1] and 'bytes a-(S-1)/S' (576 bytes for S = 1048576 and
\* a = 1048000; 100 bytes for bytes=0-99); no Range header by 200 and the S
\* payload bytes.
C7_RangeCorrect ==
  /\ resp.status \in {200, 206} =>
       \E f \in audioFiles :
         /\ f.id = resp.id
         /\ LET payload == disk[f.filePath]
                S == Len(payload)
                bytes == <<"b", "y", "t", "e", "s", " ">>
            IN /\ resp.size = S
               /\ ~resp.range.present =>
                    /\ resp.status = 200
                    /\ resp.body = payload
                    /\ resp.contentLength = Digits(S)
               /\ \A a \in 0..(S - 1) :
                    /\ \A b \in a..(S - 1) :
                         resp.range = [present |-> TRUE,
                                       text |-> HeaderFromTo(a, b)]
                         => /\ resp.status = 206
                            /\ Len(resp.body) = b - a + 1
                            /\ resp.body = SubSeq(payload, a + 1, b + 1)
                            /\ resp.contentLength = Digits(b - a + 1)
                            /\ resp.contentRange =
                                 bytes \o Digits(a) \o <<"-">> \o Digits(b)
                                   \o <<"/">> \o Digits(S)
                    /\ resp.range = [present |-> TRUE, text |-> HeaderFrom(a)]
                       => /\ resp.status = 206
                          /\ resp.body = SubSeq(payload, a + 1, S)
                          /\ resp.contentLength = Digits(S - a)
                          /\ resp.contentRange =
                               bytes \o Digits(a) \o <<"-">> \o Digits(S - 1)
                                 \o <<"/">> \o Digits(S)
  /\ ChunkSize(HeaderFrom(1048000), 1048576) = Num(576)
  /\ ContentRangeText(RangeStart(HeaderFrom(1048000)),
                      RangeEnd(HeaderFrom(1048000), 1048576), 1048576)
       = <<"b", "y", "t", "e", "s", " ", "1", "0", "4", "8", "0", "0", "0",
           "-", "1", "0", "4", "8", "5", "7", "5", "/",
           "1", "0", "4", "8", "5", "7", "6">>
  /\ ChunkSize(HeaderFromTo(0, 99), 1000) = Num(100)
  /\ ContentRangeText(RangeStart(HeaderFromTo(0, 99)),
                      RangeEnd(HeaderFromTo(0, 99), 1000), 1000)
       = <<"b", "y", "t", "e", "s", " ", "0", "-", "9", "9", "/",
           "1", "0", "0", "0">>

\* the 3-byte audio file was served for 'bytes=1-' with its last two bytes
C7_Witness ==
  /\ resp.status = 206
  /\ resp.size = 3
  /\ resp.range = [present |-> TRUE, text |-> HeaderFrom(1)]
  /\ resp.body = <<22, 23>>

\* C8: every response to a request with a Range header announces a
\* Content-Length equal to the number of body bytes and a Content-Range
\* 'bytes a-b/S' whose a and b are the positions of the first and the last
\* byte sent, with 0 <= a <= b <= S-1.
C8_RangeHeadersMatchBody ==
  resp.status = 206 =>
    \E f \in audioFiles :
      /\ f.id = resp.id
      /\ LET payload == disk[f.filePath]
             S == Len(payload)
         IN /\ resp.contentLength = Digits(Len(resp.body))
            /\ \E a \in 0..(S - 1) : \E b \in a..(S - 1) :
                 /\ resp.body = SubSeq(payload, a + 1, b + 1)
                 /\ resp.contentRange =
                      <<"b", "y", "t", "e", "s", " ">> \o Digits(a) \o <<"-">>
                        \o Digits(b) \o <<"/">> \o Digits(S)

\* C9: the etag of every entry of the audio cache is the hash of the
\* entry's buffer, and the ETag of a full-content response is the hash of
\* the bytes it serves.
C9_EtagOfBuffer ==
  /\ \A id \in DOMAIN audioFileCache :
       audioFileCache[id].etag = MD5(audioFileCache[id].buffer)
  /\ resp.status = 200 => resp.etag = MD5(resp.body)

\* a full-content response was served while the cache holds both files
C9_Witness ==
  /\ resp.status = 200
  /\ resp.body # <<>>
  /\ Cardinality(DOMAIN audioFileCache) = 2

\* C10: stream-audio of an audio file whose record exists and whose file is
\* readable never answers 404, and a full-content answer holds the bytes of
\* the file, in every state of the audio cache.
C10_ReadThrough ==
  (resp.status # 0 /\ resp.resolvable) =>
    /\ resp.status # 404
    /\ resp.status = 200 =>
         \E f \in audioFiles : f.id = resp.id /\ resp.body = disk[f.filePath]

\* C11: getCachedAudioFile never raises: when the record is missing, when
\* the record lookup fails and when reading the file fails, the call ends
\* with a miss, the audio cache is left as it was, and the stream route
\* answers 404 with no body bytes.
C11_MissNeverRaises ==
  [][\A g \in DOMAIN gets :
       LET id == gets[g].id
           ended == gets[g] # gets'[g]
           miss == /\ gets'[g].pc = "idle"
                   /\ audioFileCache' = audioFileCache
                   /\ gets[g].kind = "stream" =>
                        /\ resp'.id = id
                        /\ resp'.status = 404
                        /\ resp'.body = <<>>
                   /\ gets[g].kind # "stream" => resp' = resp
       IN /\ (/\ gets[g].pc = "lookup" /\ ended
              /\ ~\E f \in audioFiles : f.id = id) => miss
          /\ (gets[g].pc = "lookup" /\ gets'[g].pc = "idle") => miss
          /\ (/\ gets[g].pc = "read" /\ ended
              /\ gets[g].path \notin DOMAIN disk) => miss
          /\ ended => resp'.status \in {0, 200, 206, 404}]_vars

\* a stream of the audio file whose file is gone was answered 404
C11_Witness ==
  /\ resp.status = 404
  /\ resp.body = <<>>
  /\ \E f \in audioFiles : f.id = resp.id /\ f.filePath \notin DOMAIN disk

\* C12: after any sequence of cache operations, concurrent misses on one
\* id included, the audio cache holds at most 50 resident entries and one
\* entry per audio file id, which is the entry built for that id from the
\* bytes of its file.
C12_OneEntryPerId ==
  /\ Cardinality(DOMAIN audioFileCache) + fillerKeys <= 50
  /\ \A id \in DOMAIN audioFileCache :
       /\ audioFileCache[id].filePath = <<"cached", id>>
       /\ \E f \in audioFiles :
            /\ f.id = id
            /\ f.filePath \in DOMAIN disk
            /\ audioFileCache[id].buffer = disk[f.filePath]
            /\ audioFileCache[id].size = Len(disk[f.filePath])

\* a second call has read the file of an id that a concurrent call has
\* cached meanwhile, with 50 entries resident
C12_Witness ==
  /\ Cardinality(DOMAIN audioFileCache) + fillerKeys = 50
  /\ \E g \in DOMAIN gets :
       /\ gets[g].pc = "read"
       /\ gets[g].id \in DOMAIN audioFileCache

\* C13: the accept/reject decision of costLimitMiddleware at hour h reads
\* only the requester's bucket of hour h, so cost accumulated in an earlier
\* hour has no effect on it; a bucket never expires during its own hour,
\* and every bucket of a past hour eventually disappears.
C13_LedgerExpiry ==
  /\ [][/\ \A r \in DOMAIN reqs :
            (reqs[r].pc = "idle" /\ reqs'[r].pc # "idle") =>
              LET key == <<reqs'[r].user, hour>>
                  current == IF key \in DOMAIN costTracker
                               THEN costTracker[key] ELSE 0
              IN reqs'[r].resp.status = 429 <=> current > 500000
        /\ \A k \in DOMAIN costTracker :
             k \notin DOMAIN costTracker' => k[2] < hour]_vars
  /\ \A k \in LedgerKeys :
       (k \in DOMAIN costTracker /\ k[2] < hour) ~> (k \notin DOMAIN costTracker)

\* a request was accepted in hour 2 while the bucket of hour 0 holds more
\* than the ceiling
C13_Witness ==
  /\ <<"u1", 0>> \in DOMAIN costTracker
  /\ costTracker[<<"u1", 0>>] > 500000
  /\ \E r \in DOMAIN reqs : reqs[r].costKey = <<"u1", 2>>

\* C14: once the generation requests of a requester in an hour have ended,
\* the ledger entry of (requester, hour) equals the sum of the generation
\* costs of the audio files that these requests created.
C14_LedgerIsSumOfCosts ==
  (/\ \A r \in DOMAIN reqs : reqs[r].pc \in {"idle", "done"}
   /\ job.kind = "route"
   /\ job.pc \in {"idle", "done"})
  => LET RECURSIVE Costs(_)
         Costs(F) == IF F = {} THEN 0
                     ELSE LET f == CHOOSE x \in F : TRUE
                          IN f.generationCostUsd + Costs(F \ {f})
         ledger == IF <<"u1", hour>> \in DOMAIN costTracker
                     THEN costTracker[<<"u1", hour>>] ELSE 0
     IN ledger = Costs(audioFiles)

\* C15: for every requester and minute bucket whose entry is resident, the
\* bandwidth ledger value equals the number of body bytes written to the
\* requester by the requests of that bucket, and a request arriving when
\* the value exceeds the quota of 5 Mbps (39321600 bytes a minute) is
\* rejected with 429.
C15_BandwidthIsBytesEmitted ==
  /\ \A k \in DOMAIN bandwidthTracker :
       /\ k \in DOMAIN emitted
       /\ bandwidthTracker[k] = emitted[k]
  /\ \A i \in DOMAIN streams :
       (streams[i].pc # "idle" /\ streams[i].currentUsage > 39321600)
         => streams[i].status = 429

\* C16: a stream request whose If-None-Match equals the current ETag is
\* exempt from the request-rate limiters of the stream route: its arrival
\* changes no hit counter, and it is not answered 429 by
\* audioStreamingLimit or qualityBasedLimit.
C16_ValidatorExempt ==
  [][\A i \in DOMAIN streams :
       (/\ arrivals' = arrivals + 1
        /\ streams[i].pc # "open"
        /\ \A h \in 1..(i - 1) : streams[h].pc = "open"
        /\ streams'[i].ifNoneMatch = "match")
       => /\ audioStreamingHits' = audioStreamingHits
          /\ qualityHits' = qualityHits
          /\ ~(/\ streams'[i].status = 429
               /\ streams'[i].by \in {"audioStreamingLimit",
                                      "qualityBasedLimit"})]_vars

\* C17: a generate-book-audio request that reaches the handler and whose
\* summed per-chapter estimate exceeds $1.00 is answered 400 when no store
\* fault occurs; no step of it calls the provider, creates an audio file,
\* or changes the book's status, hasAudio flag or cost, the files on disk
\* or the ledger.
C17_BookCapRejected ==
  [][LET RECURSIVE Total(_)
         Total(S) == IF S = {} THEN 0
                     ELSE LET c == CHOOSE x \in S : TRUE
                          IN estimateCost(ChapterLen[c], job'.voice).cost
                               + Total(S \ {c})
     IN (/\ job' # job
         /\ job'.kind = "route"
         /\ job'.costKey # <<>>
         /\ ~job'.fault
         /\ job'.voice \in DOMAIN VoiceTable
         /\ Total(Chapters) > 1000000)
        => /\ job'.pc \in {"findBook", "done"}
           /\ job'.pc = "done" => job'.resp.status = 400
           /\ \A c \in Chapters : job'.mcalls[c] = 0 /\ job'.mpc[c] = "none"
           /\ job'.writes = <<>>
           /\ audioFiles' = audioFiles
           /\ book' = book
           /\ disk' = disk
           /\ costTracker' = costTracker]_vars

\* the job for the voice priced at $16 per million characters was answered
\* 400
C17_Witness ==
  /\ job.kind = "route"
  /\ job.pc = "done"
  /\ job.resp.status = 400
  /\ job.voice = "en-US-Standard-A"
  /\ job.writes = <<>>

\* C18: once a generate-book-audio job has ended, the book's generation
\* status is not PROCESSING; a job that ended by a fault after PROCESSING
\* was written has written FAILED.
C18_FailedAfterFault ==
  (job.kind = "route" /\ job.pc = "done" /\ job.writes # <<>>)
  => /\ job.writes[Len(job.writes)] \in {"COMPLETED", "FAILED"}
     /\ job.fault => job.writes[Len(job.writes)] = "FAILED"
     /\ (\A r \in DOMAIN reqs : reqs[r].pc \in {"idle", "done"})
          => book.audioGenerationStatus # "PROCESSING"

\* C19: after a run of cleanupExpiredFiles without a fault of the store has
\* completed, no record whose cache-expiry timestamp had passed remains in
\* the store, also when the deletion of its file failed.
C19_SweepRemovesExpired ==
  (sweep.pc = "done" /\ ~sweep.storeFault)
  => \A f \in audioFiles : f.id \notin expiredIds

\* C20: no step changes a stored audio file record: a record of the store
\* is either unchanged after the step or no record of its id remains.
C20_RecordsImmutable ==
  [][\A f \in audioFiles :
       \/ f \in audioFiles'
       \/ ~\E g \in audioFiles' : g.id = f.id]_vars

-----------------------------------------------------------------------------
(* Properties of the text services *)

C22_SyncFollowsSegmenter ==
  syncServed.status = 200 =>
    LET seg == preprocessForAudio(chapterContent).segments
        syn == syncServed.segments
    IN /\ Len(syn) = Len(seg)
       /\ \A i \in DOMAIN syn :
            /\ syn[i].text = seg[i].text
            /\ syn[i].start = IF i = 1 THEN 0 ELSE syn[i - 1].end
            /\ syn[i].end = syn[i].start + estimateTextDuration(syn[i].text)

C23_SelectionByLength ==
  \A k \in DOMAIN ttsCalls :
    LET c == ttsCalls[k] IN
    c.op = "generateSpeech" =>
      /\ Len(c.invoked) <= 1
      /\ c.requested = "none" =>
           c.invoked = <<IF c.len < 1000 THEN "amazon"
                         ELSE IF c.len <= 5000 THEN "google"
                         ELSE "azure">>
      /\ c.requested \in {"google", "azure", "amazon"} =>
           c.invoked = <<c.requested>>

\* C24: for a fixed known voice the cost returned by estimateCost is
\* non-decreasing in the text length; for an unknown voice estimateCost
\* fails instead of returning a cost.
C24_CostMonotone ==
  \A i, j \in DOMAIN ttsCalls :
    LET a == ttsCalls[i]
        b == ttsCalls[j]
    IN (a.op = "estimateCost" /\ b.op = "estimateCost") =>
         /\ a.voice \notin DOMAIN VoiceTable => ~a.ok
         /\ (a.voice = b.voice /\ a.voice \in DOMAIN VoiceTable
               /\ a.len <= b.len)
              => (a.ok /\ b.ok /\ a.cost <= b.cost)

C24_Witness ==
  /\ Len(ttsCalls) = 2
  /\ ttsCalls[1].op = "estimateCost" /\ ttsCalls[2].op = "estimateCost"
  /\ ttsCalls[1].voice = ttsCalls[2].voice
  /\ ttsCalls[1].voice \in DOMAIN VoiceTable
  /\ ttsCalls[1].len < ttsCalls[2].len
  /\ ttsCalls[1].cost < ttsCalls[2].cost

\* C26: every audio file created by generate-chapter-audio was charged no
\* more than the cost estimate that passed the cap check, and hence no more
\* than $0.10.
C26_ChargedWithinEstimate ==
  \A f \in audioFiles :
    /\ f.generationCostUsd
         <= estimateCost(ChapterLen[f.chapterId], f.voiceUsed).cost
    /\ f.generationCostUsd <= ChapterCostCap

\* C27: for every (chapter, voice) pair at most one provider call is made
\* by overlapping generation requests and at most one audio file record
\* of the pair exists.
C27_OneArtifactPerPair ==
  \A c \in Chapters, v \in DOMAIN VoiceTable :
    Cardinality({f \in audioFiles : f.chapterId = c /\ f.voiceUsed = v}) <= 1

\* C28: once a generation job has completed (the final book update of
\* generate-book-audio or of the background generation is written, no
\* fault) and no chapter request is in flight, the book's hasAudio flag is
\* true if and only if at least one audio file record exists.
C28_HasAudioIffArtifact ==
  (/\ job.pc = "done" /\ ~job.fault
   /\ job.writes # <<>> /\ job.writes[Len(job.writes)] = "COMPLETED"
   /\ \A r \in DOMAIN reqs : reqs[r].pc \in {"idle", "done"})
  => (book.hasAudio <=> audioFiles # {})

-----------------------------------------------------------------------------
(* Properties of the stream limiter and the cleanup service *)

\* C29: a stream request is exempt from audioStreamingLimit only if its
\* If-None-Match equals the current ETag: the arrival of every request
\* whose validator is absent or does not match adds one hit to the
\* requester's count.
C29_OnlyMatchExempt ==
  [][\A i \in DOMAIN streams :
       (/\ arrivals' = arrivals + 1
        /\ streams[i].pc # "open"
        /\ \A h \in 1..(i - 1) : streams[h].pc = "open"
        /\ streams'[i].ifNoneMatch # "match")
       => audioStreamingHits'[streams'[i].user]
            = audioStreamingHits[streams'[i].user] + 1]_vars

\* C30: at most one hourly timer of the CleanupService is installed at a
\* time, and no scheduled cleanup run is triggered while the service is
\* stopped (after stop() has returned and before the next start()).
C30_NoRunWhileStopped ==
  /\ Cardinality({t \in cleanupService.timers : t.kind = "interval"}) <= 1
  /\ ~cleanupService.ranWhileStopped

====
